---- MODULE Spec2Model ----
(***************************************************************************)
(* Pause/resume (human-in-the-loop approval) workflows of the Day 2        *)
(* scripts: the shipping workflow of Agent_Tools_2(MCP)/script.py and the  *)
(* two image-generation exercises (automated and interactive decision).    *)
(*                                                                         *)
(* Python values are modelled as follows.                                  *)
(*   None / Optional[x]   the empty sequence << >> / the sequence << x >>  *)
(*   dict                 a record (a function on its keys), so a missing  *)
(*                        key is a field outside DOMAIN                    *)
(*   f"ORD-{n}-AUTO"      the tuple << "ORD", n, "AUTO" >>                 *)
(*   str                  a sequence of one-character strings (keyboard    *)
(*                        input) or a tag (fixed names and messages)       *)
(* The destination / prompt argument of the gated tools only flows into    *)
(* message texts and is left out.                                          *)
(***************************************************************************)
EXTENDS Integers, Sequences, FiniteSets, TLC

\* ------------------------------------------------------------------ bounds
\* Quantities chosen freely lie within this distance of the tool's threshold.
Spread == 1
\* Most agent steps (text, tool call, ...) within one workflow run.
MaxSteps == 2
\* Most workflow runs started from one menu.
MaxRuns == 2
\* Number of values uuid4().hex[:n] can take in the model.
MaxSessionId == 2
\* Longest event list handed to the pause scan when it is applied on its own.
MaxQueries == 2
MaxLiveRuns == 1
MaxScanLen == 2

\* --------------------------------------------------------- program constants
LARGE_ORDER_THRESHOLD == 5
IMAGE_THRESHOLD == 1

None == << >>
Some(x) == << x >>
Truthy(opt) == opt # None

Scripts == {"shipping", "image_auto", "image_human"}
SessionIds == 1 .. MaxSessionId
CONFIRM == "adk_request_confirmation"

\* tool_context.tool_confirmation: None, or an object with a confirmed flag.
ConfStates == {None, Some([confirmed |-> TRUE]), Some([confirmed |-> FALSE])}

\* ------------------------------------------------------------ gated tools
\* A tool call's outcome: the returned dict and the request_confirmation
\* calls it made on the tool context, in order.
ToolOutcome(result, requests) ==
    [result |-> result, confirmation_requests |-> requests]

\* Mutant: the large-order branch returns "pending" and asks for nothing.
place_shipping_order_no_request(num_containers, tool_confirmation) ==
    IF num_containers <= LARGE_ORDER_THRESHOLD
    THEN ToolOutcome([status |-> "approved",
                      order_id |-> <<"ORD", num_containers, "AUTO">>,
                      message |-> <<"Order auto-approved", num_containers>>],
                     << >>)
    ELSE ToolOutcome([status |-> "pending",
                      message |-> <<"requires approval", num_containers>>],
                     << >>)

\* Mutant: the human-approved order id is built like the automatic one.
place_shipping_order_auto_suffix(num_containers, tool_confirmation) ==
    IF num_containers <= LARGE_ORDER_THRESHOLD \/ (Truthy(tool_confirmation)
                                                   /\ tool_confirmation[1].confirmed)
    THEN ToolOutcome([status |-> "approved",
                      order_id |-> <<"ORD", num_containers, "AUTO">>,
                      message |-> <<"Order auto-approved", num_containers>>],
                     << >>)
    ELSE IF ~Truthy(tool_confirmation)
    THEN ToolOutcome([status |-> "pending",
                      message |-> <<"requires approval", num_containers>>],
                     << [hint |-> <<"Large order", num_containers>>,
                         payload |-> [num_containers |-> num_containers]] >>)
    ELSE ToolOutcome([status |-> "rejected",
                      message |-> <<"Order rejected", num_containers>>],
                     << >>)

\* Mutant: `<` for `<=` in the threshold test.
place_shipping_order_strict_less(num_containers, tool_confirmation) ==
    IF num_containers < LARGE_ORDER_THRESHOLD
    THEN ToolOutcome([status |-> "approved",
                      order_id |-> <<"ORD", num_containers, "AUTO">>,
                      message |-> <<"Order auto-approved", num_containers>>],
                     << >>)
    ELSE IF ~Truthy(tool_confirmation)
    THEN ToolOutcome([status |-> "pending",
                      message |-> <<"requires approval", num_containers>>],
                     << [hint |-> <<"Large order", num_containers>>,
                         payload |-> [num_containers |-> num_containers]] >>)
    ELSE IF tool_confirmation[1].confirmed
    THEN ToolOutcome([status |-> "approved",
                      order_id |-> <<"ORD", num_containers, "HUMAN">>,
                      message |-> <<"Order approved", num_containers>>],
                     << >>)
    ELSE ToolOutcome([status |-> "rejected",
                      message |-> <<"Order rejected", num_containers>>],
                     << >>)

place_shipping_order(num_containers, tool_confirmation) ==
    IF num_containers <= LARGE_ORDER_THRESHOLD
    THEN ToolOutcome([status |-> "approved",
                      order_id |-> <<"ORD", num_containers, "AUTO">>,
                      message |-> <<"Order auto-approved", num_containers>>],
                     << >>)
    ELSE IF ~Truthy(tool_confirmation)
    THEN ToolOutcome([status |-> "pending",
                      message |-> <<"requires approval", num_containers>>],
                     << [hint |-> <<"Large order", num_containers>>,
                         payload |-> [num_containers |-> num_containers]] >>)
    ELSE IF tool_confirmation[1].confirmed
    THEN ToolOutcome([status |-> "approved",
                      order_id |-> <<"ORD", num_containers, "HUMAN">>,
                      message |-> <<"Order approved", num_containers>>],
                     << >>)
    ELSE ToolOutcome([status |-> "rejected",
                      message |-> <<"Order rejected", num_containers>>],
                     << >>)

\* Mutant: `count < 1` for `count <= 1`.
validate_image_batch_strict(count, tool_confirmation) ==
    IF count < IMAGE_THRESHOLD
    THEN ToolOutcome([status |-> "APPROVED",
                      message |-> <<"Single image request auto-approved">>],
                     << >>)
    ELSE IF ~Truthy(tool_confirmation)
    THEN ToolOutcome([status |-> "PENDING",
                      message |-> <<"Approval required for bulk generation">>],
                     << [hint |-> <<"Bulk Generation Request", count>>,
                         payload |-> [count |-> count]] >>)
    ELSE IF tool_confirmation[1].confirmed
    THEN ToolOutcome([status |-> "APPROVED",
                      message |-> <<"Bulk request APPROVED by human admin", count>>],
                     << >>)
    ELSE ToolOutcome([status |-> "DENIED",
                      message |-> <<"Bulk request rejected">>],
                     << >>)

\* Mutant: a denied confirmation makes the tool ask again.
validate_image_batch_asks_again(count, tool_confirmation) ==
    IF count <= IMAGE_THRESHOLD
    THEN ToolOutcome([status |-> "APPROVED",
                      message |-> <<"Single image request auto-approved">>],
                     << >>)
    ELSE IF ~Truthy(tool_confirmation) \/ ~tool_confirmation[1].confirmed
    THEN ToolOutcome([status |-> "PENDING",
                      message |-> <<"Approval required for bulk generation">>],
                     << [hint |-> <<"Bulk Generation Request", count>>,
                         payload |-> [count |-> count]] >>)
    ELSE ToolOutcome([status |-> "APPROVED",
                      message |-> <<"Bulk request APPROVED by human admin", count>>],
                     << >>)

\* validate_image_batch of image_generation_(Auto-Approval).py
validate_image_batch(count, tool_confirmation) ==
    IF count <= IMAGE_THRESHOLD
    THEN ToolOutcome([status |-> "APPROVED",
                      message |-> <<"Single image request auto-approved">>],
                     << >>)
    ELSE IF ~Truthy(tool_confirmation)
    THEN ToolOutcome([status |-> "PENDING",
                      message |-> <<"Approval required for bulk generation">>],
                     << [hint |-> <<"Bulk Generation Request", count>>,
                         payload |-> [count |-> count]] >>)
    ELSE IF tool_confirmation[1].confirmed
    THEN ToolOutcome([status |-> "APPROVED",
                      message |-> <<"Bulk request APPROVED by human admin", count>>],
                     << >>)
    ELSE ToolOutcome([status |-> "DENIED",
                      message |-> <<"Bulk request rejected">>],
                     << >>)

\* Mutant: the resumed call does not look at the decision.
validate_image_batch_interactive_always(count, tool_confirmation) ==
    IF count <= IMAGE_THRESHOLD
    THEN ToolOutcome([status |-> "APPROVED",
                      message |-> <<"Single image auto-approved">>],
                     << >>)
    ELSE IF ~Truthy(tool_confirmation)
    THEN ToolOutcome([status |-> "PENDING",
                      message |-> <<"Waiting for human approval">>],
                     << [hint |-> <<"Approve bulk generation", count>>,
                         payload |-> [count |-> count]] >>)
    ELSE ToolOutcome([status |-> "APPROVED",
                      message |-> <<"Bulk request APPROVED by admin">>],
                     << >>)

\* validate_image_batch of image_generation_(Human_Approval).py
validate_image_batch_interactive(count, tool_confirmation) ==
    IF count <= IMAGE_THRESHOLD
    THEN ToolOutcome([status |-> "APPROVED",
                      message |-> <<"Single image auto-approved">>],
                     << >>)
    ELSE IF ~Truthy(tool_confirmation)
    THEN ToolOutcome([status |-> "PENDING",
                      message |-> <<"Waiting for human approval">>],
                     << [hint |-> <<"Approve bulk generation", count>>,
                         payload |-> [count |-> count]] >>)
    ELSE IF tool_confirmation[1].confirmed
    THEN ToolOutcome([status |-> "APPROVED",
                      message |-> <<"Bulk request APPROVED by admin">>],
                     << >>)
    ELSE ToolOutcome([status |-> "DENIED",
                      message |-> <<"Bulk request DENIED by admin">>],
                     << >>)

\* The gated tool registered with the agent of each script.
GatedTool(s, count, tool_confirmation) ==
    CASE s = "shipping"    -> place_shipping_order(count, tool_confirmation)
      [] s = "image_auto"  -> validate_image_batch(count, tool_confirmation)
      [] s = "image_human" -> validate_image_batch_interactive(count, tool_confirmation)

GatedToolName(s) ==
    IF s = "shipping" THEN "place_shipping_order" ELSE "validate_image_batch"

\* The approval threshold T of each script's gated tool.
Threshold(s) ==
    IF s = "shipping" THEN LARGE_ORDER_THRESHOLD ELSE IMAGE_THRESHOLD

\* The quantities the agent and the operator choose among, around T.
Counts(s) == { c \in (Threshold(s) - Spread) .. (Threshold(s) + Spread) : c >= 0 }

\* The status words of each script's gated tool.
ApprovedStatus(s) == IF s = "shipping" THEN "approved" ELSE "APPROVED"
PendingStatus(s)  == IF s = "shipping" THEN "pending" ELSE "PENDING"
RejectedStatus(s) == IF s = "shipping" THEN "rejected" ELSE "DENIED"

\* ------------------------------------------------------------------ events
\* An event: invocation_id and content (None, or an object with parts).
\* A part: text, function_call and function_response, each None when unset
\* (a text is a non-empty tuple).
Part(text, function_call, function_response) ==
    [text |-> text, function_call |-> function_call,
     function_response |-> function_response]
TextPart(t) == Part(t, None, None)
CallPart(name, id) == Part(None, Some([name |-> name, id |-> id]), None)
ResponsePart(name, id, response) ==
    Part(None, None, Some([name |-> name, id |-> id, response |-> response]))
Content(role, parts) == Some([role |-> role, parts |-> parts])
Event(invocation_id, content) ==
    [invocation_id |-> invocation_id, content |-> content]

\* `event.content and event.content.parts`
HasParts(event) ==
    Truthy(event.content) /\ event.content[1].parts # << >>

\* `part.function_call and part.function_call.name == "adk_request_confirmation"`
IsConfirmationCall(part) ==
    Truthy(part.function_call) /\ part.function_call[1].name = CONFIRM

\* The inner loop of the scan: the first matching part of one event, from j on.
RECURSIVE FirstPartFrom(_, _)
FirstPartFrom(parts, j) ==
    IF j > Len(parts) THEN None
    ELSE IF IsConfirmationCall(parts[j]) THEN Some(j)
    ELSE FirstPartFrom(parts, j + 1)

\* Mutant: no early return, so the last matching event wins.
RECURSIVE FirstConfirmationLast(_, _)
FirstConfirmationLast(events, i) ==
    IF i > Len(events) THEN None
    ELSE IF Truthy(FirstConfirmationLast(events, i + 1))
         THEN FirstConfirmationLast(events, i + 1)
         ELSE IF HasParts(events[i])
                   /\ Truthy(FirstPartFrom(events[i].content[1].parts, 1))
              THEN Some(<<i, FirstPartFrom(events[i].content[1].parts, 1)[1]>>)
              ELSE None

\* The outer loop of the scan: the position <<i, j>> at which the scan returns.
RECURSIVE FirstConfirmationFrom(_, _)
FirstConfirmationFrom(events, i) ==
    IF i > Len(events) THEN None
    ELSE IF HasParts(events[i])
              /\ Truthy(FirstPartFrom(events[i].content[1].parts, 1))
         THEN Some(<<i, FirstPartFrom(events[i].content[1].parts, 1)[1]>>)
         ELSE FirstConfirmationFrom(events, i + 1)

PartAt(events, pos) == events[pos[1]].content[1].parts[pos[2]]

\* check_for_approval of Agent_Tools_2(MCP)/script.py
check_for_approval(events) ==
    LET hit == FirstConfirmationFrom(events, 1) IN
    IF ~Truthy(hit) THEN None
    ELSE Some([approval_id |-> PartAt(events, hit[1]).function_call[1].id,
               invocation_id |-> events[hit[1][1]].invocation_id])

\* Mutant: the function call's id is reported as the invocation id.
check_for_pause_call_id(events) ==
    LET hit == FirstConfirmationFrom(events, 1) IN
    IF ~Truthy(hit) THEN None
    ELSE Some([id |-> PartAt(events, hit[1]).function_call[1].id,
               invocation_id |-> PartAt(events, hit[1]).function_call[1].id])

\* check_for_pause of image_generation_(Auto-Approval).py
check_for_pause(events) ==
    LET hit == FirstConfirmationFrom(events, 1) IN
    IF ~Truthy(hit) THEN None
    ELSE Some([id |-> PartAt(events, hit[1]).function_call[1].id,
               invocation_id |-> events[hit[1][1]].invocation_id])

\* check_for_pause of image_generation_(Human_Approval).py
check_for_pause_interactive(events) ==
    LET hit == FirstConfirmationFrom(events, 1) IN
    IF ~Truthy(hit) THEN None
    ELSE Some([id |-> PartAt(events, hit[1]).function_call[1].id,
               invocation_id |-> events[hit[1][1]].invocation_id])

\* The pause scan of each script.
ScanForPause(s, events) ==
    CASE s = "shipping"    -> check_for_approval(events)
      [] s = "image_auto"  -> check_for_pause(events)
      [] s = "image_human" -> check_for_pause_interactive(events)

\* The request id held by a scan result of script s.
RequestIdOf(s, info) ==
    IF s = "shipping" THEN info.approval_id ELSE info.id

\* -------------------------------------------------------- decision message
\* Mutant: the response always confirms.
create_approval_response_always(approval_info, approved) ==
    Content("user",
            << ResponsePart(CONFIRM, approval_info.approval_id,
                            [confirmed |-> TRUE]) >>)

\* create_approval_response of Agent_Tools_2(MCP)/script.py
create_approval_response(approval_info, approved) ==
    Content("user",
            << ResponsePart(CONFIRM, approval_info.approval_id,
                            [confirmed |-> approved]) >>)

\* create_human_decision of image_generation_(Auto-Approval).py
create_human_decision(approval_info, is_approved) ==
    Content("user",
            << ResponsePart(CONFIRM, approval_info.id,
                            [confirmed |-> is_approved]) >>)

\* Mutant: the response is keyed by the invocation id.
create_human_decision_interactive_by_invocation(approval_info, is_approved) ==
    Content("user",
            << ResponsePart(CONFIRM, approval_info.invocation_id,
                            [confirmed |-> is_approved]) >>)

\* create_human_decision of image_generation_(Human_Approval).py
create_human_decision_interactive(approval_info, is_approved) ==
    Content("user",
            << ResponsePart(CONFIRM, approval_info.id,
                            [confirmed |-> is_approved]) >>)

\* The decision message builder of each script.
DecisionMessage(s, info, approved) ==
    CASE s = "shipping"    -> create_approval_response(info, approved)
      [] s = "image_auto"  -> create_human_decision(info, approved)
      [] s = "image_human" -> create_human_decision_interactive(info, approved)


\* ---------------------------------------------------------- keyboard input
Whitespace == {" ", "\t"}

\* str.lower on a character (ASCII letters).
LowerChar(c) ==
    CASE c = "A" -> "a" [] c = "B" -> "b" [] c = "C" -> "c" [] c = "D" -> "d"
      [] c = "E" -> "e" [] c = "F" -> "f" [] c = "G" -> "g" [] c = "H" -> "h"
      [] c = "I" -> "i" [] c = "J" -> "j" [] c = "K" -> "k" [] c = "L" -> "l"
      [] c = "M" -> "m" [] c = "N" -> "n" [] c = "O" -> "o" [] c = "P" -> "p"
      [] c = "Q" -> "q" [] c = "R" -> "r" [] c = "S" -> "s" [] c = "T" -> "t"
      [] c = "U" -> "u" [] c = "V" -> "v" [] c = "W" -> "w" [] c = "X" -> "x"
      [] c = "Y" -> "y" [] c = "Z" -> "z"
      [] OTHER -> c

lower(str) == [i \in 1 .. Len(str) |-> LowerChar(str[i])]

RECURSIVE lstrip(_)
lstrip(str) ==
    IF str # << >> /\ Head(str) \in Whitespace THEN lstrip(Tail(str)) ELSE str

RECURSIVE rstrip(_)
rstrip(str) ==
    IF str # << >> /\ str[Len(str)] \in Whitespace
    THEN rstrip(SubSeq(str, 1, Len(str) - 1)) ELSE str

strip(str) == rstrip(lstrip(str))

\* Lines the operator may type at the approval prompt.
Answers ==
    { <<"y">>, <<"Y">>, <<"y", "e", "s">>, <<" ", "Y", "E", "S", " ">>,
      <<"n">>, <<"N", "o">>, <<"n", "o", "\t">>,
      << >>, <<" ">>, <<"m">>, <<"y", "e">>, <<"n", " ", "o">>, <<"y", "y">> }

\* ----------------------------------------------------- the currency tools
\* Strings are sequences of characters; a float literal is kept as written.
PLATINUM == <<"p", "l", "a", "t", "i", "n", "u", "m", " ", "c", "r", "e", "d", "i", "t", " ", "c", "a", "r", "d">>
GOLD == <<"g", "o", "l", "d", " ", "d", "e", "b", "i", "t", " ", "c", "a", "r", "d">>
BANK == <<"b", "a", "n", "k", " ", "t", "r", "a", "n", "s", "f", "e", "r">>

\* fee_database of get_fee_for_payment_method
fee_database ==
    (PLATINUM :> "0.02") @@ (GOLD :> "0.035") @@ (BANK :> "0.01")

\* Mutant: the table is indexed directly, an unknown key raises KeyError.
get_fee_for_payment_method_raises(method) ==
    IF lower(method) \in DOMAIN fee_database
    THEN [status |-> "success", fee_percentage |-> fee_database[lower(method)]]
    ELSE [raised |-> "KeyError"]

get_fee_for_payment_method(method) ==
    LET fee == IF lower(method) \in DOMAIN fee_database
               THEN Some(fee_database[lower(method)]) ELSE None
    IN  IF fee # None
        THEN [status |-> "success", fee_percentage |-> fee[1]]
        ELSE [status |-> "error",
              error_message |-> <<"Payment method '", method, "' not found">>]

\* rate_database of get_exchange_rate
rate_database ==
    (<<"u", "s", "d">> :>
        ((<<"e", "u", "r">> :> "0.93") @@ (<<"j", "p", "y">> :> "157.50")
         @@ (<<"i", "n", "r">> :> "83.58")))

get_exchange_rate(base_currency, target_currency) ==
    LET base == lower(base_currency)
        target == lower(target_currency)
        row == IF base \in DOMAIN rate_database
               THEN rate_database[base] ELSE << >>
        rate == IF target \in DOMAIN row THEN Some(row[target]) ELSE None
    IN  IF rate # None
        THEN [status |-> "success", rate |-> rate[1]]
        ELSE [status |-> "error",
              error_message |-> <<"Unsupported currency pair: ",
                                  base_currency, "/", target_currency>>]

\* ------------------------------------------------------------------- state
VARIABLES
    script,        \* which of the three scripts is running
    pc,            \* the controller's position in main / the workflow function
    runs,          \* workflow runs started so far
    query,         \* the quantity the current query asks for
    auto_approve,  \* auto_approve_decision / auto_approve of the current run
    session_id,    \* session_id of the current run
    events,        \* the list `events` collected from the initial run
    approval_info, \* approval_info / pause_info
    is_approved,   \* the decision sent on resume, None before it is taken
    calls,         \* the run's calls to the session service and the runner
    \* the agent execution service and the session store
    sessions,      \* session ids held by the session store
    pending,       \* the current session's paused gated call, None if none
    unresolved,    \* sessions of finished runs left with an unanswered request
    agent,         \* "idle", "llm" (the agent acts next) or "ended"
    invocation,    \* invocation id of the current run_async call
    outbox,        \* events produced and not yet taken by the `async for`
    steps,         \* agent steps taken in the current workflow run
    nextId,        \* ids handed out so far in the current run
    toolLog,       \* the gated tool's calls during the current run
    \* the process environment and what earlier runs left behind
    api_key,       \* whether GOOGLE_API_KEY is set in the environment
    typed,         \* the line read at the approval prompt, until the resume call
    prev,          \* the previous run's query, when it was paused and approved
    completed,     \* session ids of the workflow runs that have returned
    \* application of a helper on its own
    applied,
    \* the MCP toolset and the agents built around it
    mcp_tool,      \* what the last create_mcp_toolset() call gave its caller:
                   \* Unset before, Raised, or Returned(None or a toolset)
    agents,        \* names of the agents constructed and still referenced
    ran,           \* the queries handed to run_debug since the last menu
    printed,       \* the reports printed since the last menu
    \* a multi-agent workflow run (Day1/multi-agent)
    workflow,      \* the workflow being run, "none" before run_workflow
    status,        \* per agent: "idle", "running" or "done"
    position,      \* per sequential / loop agent: index of its current sub-agent
    times_looped,  \* per loop agent: passes over its sub-agents completed
    session_state, \* session state: output key -> the agent that wrote it last
    escalate,      \* the running sub-agent's events carried actions.escalate
    trace,         \* agent starts, tool calls and ends, in order
    \* interactive_mode (Day1/agent, Day2/Agent_Tools)
    repl,          \* "off", "prompt", "running" or "ended"
    user_input     \* the line read by the last input()

vars == << script, pc, runs, query, auto_approve, session_id, events,
           approval_info, is_approved, calls, sessions, pending,
           unresolved, agent, invocation, outbox, steps, nextId, toolLog,
           api_key, typed, prev, completed, applied,
           mcp_tool, agents, ran, printed,
           workflow, status, position, times_looped, session_state,
           escalate, trace,
           repl, user_input >>

ctlVars == << query, auto_approve, session_id, events, approval_info,
              is_approved, calls >>
envVars == << sessions, pending, unresolved, agent, invocation, outbox,
              steps, nextId, toolLog >>

histVars == << api_key, typed, prev, completed >>

mcpVars == << mcp_tool, agents, ran, printed >>
wfVars == << workflow, status, position, times_looped, session_state,
            escalate, trace >>
replVars == << repl, user_input >>

\* ------------------------------------- the agents of Day1/multi-agent/script.py
\* Agent(name=..., instruction=..., tools=[...], output_key=...): the
\* placeholders are the {keys} of the instruction.
Agent(name, placeholders, tools, output_key) ==
    [kind |-> "llm", name |-> name, placeholders |-> placeholders,
     tools |-> tools, output_key |-> output_key, sub_agents |-> << >>,
     max_iterations |-> 0]

SequentialAgent(name, sub_agents) ==
    [kind |-> "sequential", name |-> name, placeholders |-> {},
     tools |-> {}, output_key |-> "", sub_agents |-> sub_agents,
     max_iterations |-> 0]

ParallelAgent(name, sub_agents) ==
    [kind |-> "parallel", name |-> name, placeholders |-> {},
     tools |-> {}, output_key |-> "", sub_agents |-> sub_agents,
     max_iterations |-> 0]

LoopAgent(name, sub_agents, max_iterations) ==
    [kind |-> "loop", name |-> name, placeholders |-> {},
     tools |-> {}, output_key |-> "", sub_agents |-> sub_agents,
     max_iterations |-> max_iterations]

\* Mutant: the writer is placed before the outline agent.
create_blog_pipeline_writer_first ==
    [root |-> "BlogPipeline",
     agents |->
       { Agent("OutlineAgent", {}, {}, "blog_outline"),
         Agent("WriterAgent", {"blog_outline"}, {}, "blog_draft"),
         Agent("EditorAgent", {"blog_draft"}, {}, "final_blog"),
         SequentialAgent("BlogPipeline",
                         << "WriterAgent", "OutlineAgent", "EditorAgent" >>) }]

\* create_blog_pipeline: outline -> writer -> editor.
create_blog_pipeline ==
    [root |-> "BlogPipeline",
     agents |->
       { Agent("OutlineAgent", {}, {}, "blog_outline"),
         Agent("WriterAgent", {"blog_outline"}, {}, "blog_draft"),
         Agent("EditorAgent", {"blog_draft"}, {}, "final_blog"),
         SequentialAgent("BlogPipeline",
                         << "OutlineAgent", "WriterAgent", "EditorAgent" >>) }]

\* Mutant: the finance researcher is left out of the parallel team and runs
\* after the aggregator.
create_parallel_research_system_late_finance ==
    [root |-> "ResearchSystem",
     agents |->
       { Agent("TechResearcher", {}, {"google_search"}, "tech_research"),
         Agent("HealthResearcher", {}, {"google_search"}, "health_research"),
         Agent("FinanceResearcher", {}, {"google_search"}, "finance_research"),
         Agent("AggregatorAgent",
               {"tech_research", "health_research", "finance_research"},
               {}, "executive_summary"),
         ParallelAgent("ParallelResearchTeam",
                       << "TechResearcher", "HealthResearcher" >>),
         SequentialAgent("ResearchSystem",
                         << "ParallelResearchTeam", "AggregatorAgent",
                            "FinanceResearcher" >>) }]

\* create_parallel_research_system: three researchers in a parallel team,
\* then the aggregator.
create_parallel_research_system ==
    [root |-> "ResearchSystem",
     agents |->
       { Agent("TechResearcher", {}, {"google_search"}, "tech_research"),
         Agent("HealthResearcher", {}, {"google_search"}, "health_research"),
         Agent("FinanceResearcher", {}, {"google_search"}, "finance_research"),
         Agent("AggregatorAgent",
               {"tech_research", "health_research", "finance_research"},
               {}, "executive_summary"),
         ParallelAgent("ParallelResearchTeam",
                       << "TechResearcher", "HealthResearcher",
                          "FinanceResearcher" >>),
         SequentialAgent("ResearchSystem",
                         << "ParallelResearchTeam", "AggregatorAgent" >>) }]

\* create_story_refinement_system: initial writer, then the loop critic ->
\* refiner with max_iterations=2.
create_story_refinement_system ==
    [root |-> "StoryPipeline",
     agents |->
       { Agent("InitialWriterAgent", {}, {}, "current_story"),
         Agent("CriticAgent", {"current_story"}, {}, "critique"),
         Agent("RefinerAgent", {"current_story", "critique"}, {"exit_loop"},
               "current_story"),
         LoopAgent("StoryRefinementLoop",
                   << "CriticAgent", "RefinerAgent" >>, 2),
         SequentialAgent("StoryPipeline",
                         << "InitialWriterAgent", "StoryRefinementLoop" >>) }]

Workflows == {"blog", "research", "story"}

System(w) ==
    CASE w = "blog"     -> create_blog_pipeline
      [] w = "research" -> create_parallel_research_system
      [] w = "story"    -> create_story_refinement_system

AgentNames == UNION { { a.name : a \in System(w).agents } : w \in Workflows }
StateKeys ==
    UNION { UNION { a.placeholders \cup ({a.output_key} \ {""})
                    : a \in System(w).agents } : w \in Workflows }
Unwritten == ""
\* No runner exists outside run_workflow: no agent status, no session state.
NoRunner == << >>

\* def exit_loop(): return {"status": "approved", "message": ...}. The
\* function takes no tool context and sets nothing on the event's actions.
exit_loop ==
    [result |-> [status |-> "approved",
                 message |-> "Story approved. Exiting refinement loop."],
     escalate |-> FALSE]

\* The built-in search tool returns search results.
google_search == [result |-> [status |-> "results"], escalate |-> FALSE]

Tool(t) == IF t = "exit_loop" THEN exit_loop ELSE google_search


NotApplied == [fn |-> "none"]

\* The values of mcp_tool.
Unset == [outcome |-> "unset", value |-> None]
Raised == [outcome |-> "raised", value |-> None]
Returned(value) == [outcome |-> "returned", value |-> value]

\* Call, request and invocation ids are fresh (uuid-based) values: the k-th id
\* handed out during the r-th run is << r, k >>.
FreshId(k) == << runs, k >>
NoId == << 0, 0 >>

InitFor(programs) ==
    /\ script \in programs
    /\ api_key \in BOOLEAN
    /\ pc = "start"
    /\ runs = 0
    /\ query = 0
    /\ auto_approve = TRUE
    /\ session_id = 0
    /\ events = << >>
    /\ approval_info = None
    /\ is_approved = None
    /\ calls = << >>
    /\ sessions = {}
    /\ pending = None
    /\ unresolved = {}
    /\ agent = "idle"
    /\ invocation = NoId
    /\ outbox = << >>
    /\ steps = 0
    /\ nextId = 1
    /\ toolLog = << >>
    /\ typed = None
    /\ prev = None
    /\ completed = {}
    /\ applied = NotApplied
    /\ mcp_tool = Unset
    /\ agents = {}
    /\ workflow = "none"
    /\ status = NoRunner
    /\ position = NoRunner
    /\ times_looped = NoRunner
    /\ session_state = NoRunner
    /\ escalate = FALSE
    /\ trace = << >>
    /\ repl = "off"
    /\ user_input = << >>
    /\ ran = << >>
    /\ printed = << >>

\* The three approval scripts.
Init == InitFor(Scripts)


\* ------------------------------------------------------------- controller
\* setup_environment of Agent_Tools_2(MCP)/script.py: a missing key raises
\* ValueError.
setup_environment(key) == IF ~key THEN "ValueError" ELSE "ok"

\* setup_environment of the two exercise scripts: a missing key is printed
\* as a warning and the function returns.
setup_environment_exercise(key) == IF ~key THEN "warning" ELSE "ok"

SetupEnvironment(s, key) ==
    IF s = "shipping" THEN setup_environment(key)
    ELSE setup_environment_exercise(key)

\* Mutant: the constructor's exception is not caught.
create_mcp_toolset_unguarded(s, raised) ==
    IF raised
    THEN [raises |-> TRUE, printed |-> << >>, value |-> None]
    ELSE [raises |-> FALSE,
          printed |-> IF s = "shipping" THEN << "MCP Toolset connected" >>
                                        ELSE << >>,
          value |-> Some("McpToolset")]

\* create_mcp_toolset: `try: return McpToolset(...)`, and
\* `except Exception as e: print(...); return None`. `raised` says whether
\* the McpToolset constructor raised.
create_mcp_toolset(s, raised) ==
    IF raised
    THEN [raises |-> FALSE,
          printed |-> IF s = "shipping" THEN << "MCP Connection Failed" >>
                                        ELSE << "MCP Error" >>,
          value |-> None]
    ELSE [raises |-> FALSE,
          printed |-> IF s = "shipping" THEN << "MCP Toolset connected" >>
                                        ELSE << >>,
          value |-> Some("McpToolset")]

\* main / main_logic up to the menu loop: setup_environment(), then the
\* agent, the app, the session service and the runner are built; main_logic
\* first calls create_mcp_toolset() and returns if it gave nothing. In main
\* an exception reaches `except Exception as e: print("Fatal Error")` and
\* main returns.
Startup ==
    /\ pc = "start"
    /\ IF SetupEnvironment(script, api_key) = "ValueError"
       THEN /\ pc' = "fatal"
            /\ UNCHANGED mcpVars
       ELSE IF script = "shipping"
       THEN /\ pc' = "menu"
            /\ agents' = agents \cup {"shipping_agent"}
            /\ UNCHANGED << mcp_tool, ran, printed >>
       ELSE \E raised \in BOOLEAN :
              LET made == create_mcp_toolset(script, raised) IN
              /\ printed' = printed \o made.printed
              /\ ran' = ran
              /\ IF made.raises
                 THEN /\ mcp_tool' = Raised
                      /\ pc' = "fatal"
                      /\ agents' = agents
                 ELSE /\ mcp_tool' = Returned(made.value)
                      /\ IF ~Truthy(made.value)
                         THEN /\ pc' = "exit"
                              /\ agents' = agents
                         ELSE /\ pc' = "menu"
                              /\ agents' = agents \cup {"creative_agent"}
    /\ UNCHANGED << wfVars, replVars, histVars, script, runs, ctlVars,
                    envVars, applied >>

\* The menu entries that start a workflow: <<query quantity, decision>>.
MenuEntries(s) ==
    CASE s = "shipping"    -> {<<3, TRUE>>, <<10, TRUE>>, <<8, FALSE>>}
      [] s = "image_auto"  -> {<<1, TRUE>>, <<3, TRUE>>, <<50, FALSE>>}
      [] s = "image_human" -> {<<c, TRUE>> : c \in Counts(s)}

\* main / main_logic: a menu choice that starts a workflow run, while fewer
\* than `limit` runs were started.
MenuChoiceUpTo(limit) ==
    /\ pc = "menu"
    /\ runs < limit
    /\ \E entry \in MenuEntries(script) :
         /\ query' = entry[1]
         /\ auto_approve' = entry[2]
    /\ pc' = "create_session"
    /\ runs' = runs + 1
    /\ session_id' = 0
    /\ events' = << >>
    /\ approval_info' = None
    /\ is_approved' = None
    /\ calls' = << >>
    /\ toolLog' = << >>
    /\ nextId' = 1
    /\ mcp_tool' = IF script = "shipping" THEN Unset ELSE mcp_tool
    /\ ran' = << >>
    /\ printed' = << >>
    /\ UNCHANGED << agents, wfVars, replVars, histVars, script, sessions,
                    pending, unresolved, agent, invocation, outbox, steps,
                    applied >>

MenuChoice == MenuChoiceUpTo(MaxRuns)

\* Menu choice 1 of main: run_mcp_demo up to `runner = InMemoryRunner(...)`.
\* `mcp_tool = create_mcp_toolset(); if not mcp_tool: return`.
RunMcpDemo ==
    /\ pc = "menu"
    /\ script = "shipping"
    /\ \E raised \in BOOLEAN :
         LET made == create_mcp_toolset(script, raised) IN
         /\ printed' = made.printed
         /\ ran' = << >>
         /\ IF made.raises
            THEN /\ mcp_tool' = Raised
                 /\ pc' = "fatal"
                 /\ agents' = agents
            ELSE /\ mcp_tool' = Returned(made.value)
                 /\ IF ~Truthy(made.value)
                    THEN /\ pc' = "menu"
                         /\ agents' = agents
                    ELSE /\ pc' = "mcp_demo"
                         /\ agents' = agents \cup {"image_agent"}
    /\ UNCHANGED << wfVars, replVars, histVars, script, runs, ctlVars,
                    envVars, applied >>

\* run_mcp_demo: `response = await runner.run_debug(query, verbose=True)`,
\* the inspection of the response and the return to the menu, where the
\* demo's agent and runner are no longer referenced. An exception of the
\* run reaches main's `except Exception`.
McpDemoRuns ==
    /\ pc = "mcp_demo"
    /\ ran' = Append(ran, "Provide a sample tiny image")
    /\ pc' \in {"menu", "fatal"}
    /\ agents' = agents \ {"image_agent"}
    /\ UNCHANGED << mcp_tool, printed, wfVars, replVars, histVars, script,
                    runs, ctlVars, envVars, applied >>

\* main / main_logic: the choice q leaves the menu loop.
MenuQuit ==
    /\ pc = "menu"
    /\ pc' = "exit"
    /\ mcp_tool' = IF script = "shipping" THEN Unset ELSE mcp_tool
    /\ ran' = << >>
    /\ printed' = << >>
    /\ UNCHANGED << agents, wfVars, replVars, histVars, script, runs, ctlVars,
                    envVars, applied >>

UserId(s) == IF s = "shipping" THEN "test_user" ELSE "user1"
AppName(s) == IF s = "shipping" THEN "shipping_coordinator" ELSE "image_app"

CreateSessionCall(s, sid) ==
    [op |-> "create_session", app_name |-> AppName(s), user_id |-> UserId(s),
     session_id |-> sid]

RunAsyncCall(s, sid, new_message, invocation_id) ==
    [op |-> "run_async", user_id |-> UserId(s), session_id |-> sid,
     new_message |-> new_message, invocation_id |-> invocation_id]

\* session_id = f"order_{uuid.uuid4().hex[:8]}"; create_session(...).
\* The store holds the new session; an id it already holds either raises
\* (AlreadyExistsError) or replaces the session, depending on the service.
CreateSession ==
    /\ pc = "create_session"
    /\ \E sid \in SessionIds :
         /\ session_id' = sid
         /\ calls' = Append(calls, CreateSessionCall(script, sid))
         /\ \/ /\ sessions' = sessions \cup {sid}
               /\ pending' = None
               /\ unresolved' = unresolved \ {sid}
               /\ pc' = "initial_run"
            \/ /\ sid \in sessions
               /\ pc' = "fatal"
               /\ UNCHANGED << sessions, pending, unresolved >>
    /\ UNCHANGED << mcpVars, wfVars, replVars, histVars, script, runs, query, auto_approve, events, approval_info,
                    is_approved, agent, invocation, outbox, steps,
                    nextId, toolLog, applied >>

\* query_content = Content(role="user", parts=[Part(text=query)])
QueryContent(q) == Content("user", << TextPart(<<"query", q>>) >>)

\* STEP 1: runner.run_async(user_id, session_id, new_message=query_content).
\* The service opens a new invocation and hands the turn to the agent.
StartInitialRun ==
    /\ pc = "initial_run"
    /\ calls' = Append(calls, RunAsyncCall(script, session_id,
                                           QueryContent(query), None))
    /\ invocation' = FreshId(nextId)
    /\ nextId' = nextId + 1
    /\ agent' = "llm"
    /\ steps' = 0
    /\ outbox' = << >>
    /\ pc' = "running"
    /\ UNCHANGED << mcpVars, wfVars, replVars, histVars, script, runs, query, auto_approve, session_id, events,
                    approval_info, is_approved, sessions, pending,
                    unresolved, toolLog, applied >>

\* Mutant: the scan runs inside the loop body and the loop goes on reading
\* after a confirmation request was seen.
ConsumeInitialEvent_scanning ==
    /\ pc \in {"running", "paused"}
    /\ outbox # << >>
    /\ events' = Append(events, Head(outbox))
    /\ outbox' = Tail(outbox)
    /\ approval_info' = ScanForPause(script, events')
    /\ pc' = IF Truthy(approval_info') THEN "paused" ELSE pc
    /\ UNCHANGED << mcpVars, wfVars, replVars, histVars, script, runs, query, auto_approve, session_id,
                    is_approved, calls, sessions, pending, unresolved,
                    agent, invocation, steps, nextId, toolLog, applied >>

\* `async for event in runner.run_async(...): events.append(event)`
ConsumeInitialEvent ==
    /\ pc = "running"
    /\ outbox # << >>
    /\ events' = Append(events, Head(outbox))
    /\ outbox' = Tail(outbox)
    /\ UNCHANGED << mcpVars, wfVars, replVars, histVars, script, pc, runs, query, auto_approve, session_id,
                    approval_info, is_approved, calls, sessions,
                    pending, unresolved, agent, invocation, steps, nextId,
                    toolLog, applied >>

\* Mutant: the scan does not wait for the end of the event sequence.
CheckForPause_eager ==
    /\ pc = "running"
    /\ approval_info' = ScanForPause(script, events)
    /\ pc' = IF Truthy(approval_info') THEN "paused" ELSE "no_pause"
    /\ UNCHANGED << mcpVars, wfVars, replVars, histVars, script, runs, query, auto_approve, session_id, events,
                    is_approved, calls, envVars, applied >>

\* STEP 2: approval_info = check_for_approval(events); if approval_info: ...
CheckForPause ==
    /\ pc = "running"
    /\ outbox = << >>
    /\ agent = "ended"
    /\ approval_info' = ScanForPause(script, events)
    /\ pc' = IF Truthy(approval_info') THEN "paused" ELSE "no_pause"
    /\ UNCHANGED << mcpVars, wfVars, replVars, histVars, script, runs, query, auto_approve, session_id, events,
                    is_approved, calls, envVars, applied >>

\* Mutant: an approval given in the previous run is remembered.
AutoDecide_sticky ==
    /\ pc = "paused"
    /\ script \in {"shipping", "image_auto"}
    /\ is_approved' = Some(auto_approve \/ Truthy(prev))
    /\ pc' = "resume"
    /\ UNCHANGED << mcpVars, wfVars, replVars, histVars, script, runs, query, auto_approve, session_id,
                    events, approval_info, calls, envVars, applied >>

\* Mutant: the workflow function returns from a pause without resuming.
AutoDecide_abandons ==
    /\ pc = "paused"
    /\ script \in {"shipping", "image_auto"}
    /\ is_approved' = Some(auto_approve)
    /\ pc' = "done"
    /\ UNCHANGED << mcpVars, wfVars, replVars, histVars, script, runs, query,
                    auto_approve, session_id, events, approval_info, calls,
                    envVars, applied >>

\* The automated workflows take the decision from their parameter.
AutoDecide ==
    /\ pc = "paused"
    /\ script \in {"shipping", "image_auto"}
    /\ is_approved' = Some(auto_approve)
    /\ pc' = "resume"
    /\ UNCHANGED << mcpVars, wfVars, replVars, histVars, script, runs, query, auto_approve, session_id, events,
                    approval_info, calls, envVars, applied >>

\* Mutant: the answer is not trimmed.
PromptDecision_no_strip(line) ==
    LET decision == lower(line) IN
    IF decision \in {<<"y">>, <<"y", "e", "s">>} THEN Some(TRUE)
    ELSE IF decision \in {<<"n">>, <<"n", "o">>} THEN Some(FALSE)
    ELSE None

\* `decision = input(...).strip().lower()` and the branches on it.
PromptDecision(line) ==
    LET decision == strip(lower(line)) IN
    IF decision \in {<<"y">>, <<"y", "e", "s">>} THEN Some(TRUE)
    ELSE IF decision \in {<<"n">>, <<"n", "o">>} THEN Some(FALSE)
    ELSE None

\* One round of the interactive `while True:` prompt loop.
Prompt ==
    /\ pc = "paused"
    /\ script = "image_human"
    /\ \E line \in Answers :
         /\ typed' = Some(line)
         /\ is_approved' = PromptDecision(line)
         /\ pc' = IF Truthy(is_approved') THEN "resume" ELSE "paused"
    /\ UNCHANGED << mcpVars, wfVars, replVars, script, runs, query, auto_approve, session_id, events,
                    approval_info, calls, envVars, api_key, prev, completed,
                    applied >>


\* Mutant: the resume call leaves out invocation_id.
ResumeCall_no_invocation ==
    RunAsyncCall(script, session_id,
                 DecisionMessage(script, approval_info[1], is_approved[1]),
                 None)

\* STEP 3, the RESUME call: runner.run_async(user_id, session_id,
\* new_message=create_approval_response(approval_info, decision),
\* invocation_id=approval_info["invocation_id"]).
ResumeCall ==
    RunAsyncCall(script, session_id,
                 DecisionMessage(script, approval_info[1], is_approved[1]),
                 Some(approval_info[1].invocation_id))

\* What the execution service does with a run_async call that names an
\* invocation to resume: a decision that matches the session's paused call
\* re-invokes the gated tool with the original arguments and the
\* confirmation attached; anything else is taken as a new, unrelated turn.
ResumeMatches(call) ==
    LET fr == call.new_message[1].parts[1].function_response[1] IN
    /\ call.session_id = session_id
    /\ Truthy(pending)
    /\ fr.name = CONFIRM
    /\ fr.id = pending[1].id
    /\ call.invocation_id = Some(pending[1].invocation_id)

\* The events of one gated tool call with the k-th id: the agent's function
\* call, one confirmation request per request_confirmation call (the ids after it), and the tool's function response.
ToolCallEvents(inv, k, outcome, with_call) ==
    (IF with_call
     THEN << Event(inv, Content("model",
                 << CallPart(GatedToolName(script), FreshId(k)) >>)) >>
     ELSE << >>)
    \o [j \in 1 .. Len(outcome.confirmation_requests) |->
          Event(inv, Content("model", << CallPart(CONFIRM, FreshId(k + j)) >>))]
    \o << Event(inv, Content("user",
              << ResponsePart(GatedToolName(script), FreshId(k),
                              outcome.result) >>)) >>

ToolLogEntry(count, tool_confirmation, outcome, phase) ==
    [count |-> count, tool_confirmation |-> tool_confirmation,
     outcome |-> outcome, phase |-> phase]

PausedCall(id, inv, count) ==
    Some([id |-> id, invocation_id |-> inv, count |-> count])

StartResume ==
    /\ pc = "resume"
    /\ calls' = Append(calls, ResumeCall)
    /\ pc' = "resuming"
    /\ IF ResumeMatches(ResumeCall)
       THEN LET paused == pending[1]
                conf == Some([confirmed |->
                          ResumeCall.new_message[1].parts[1]
                            .function_response[1].response.confirmed])
                outcome == GatedTool(script, paused.count, conf)
                again == outcome.confirmation_requests # << >>
            IN  /\ invocation' = paused.invocation_id
                /\ toolLog' = Append(toolLog,
                       ToolLogEntry(paused.count, conf, outcome, "resumed"))
                /\ outbox' = ToolCallEvents(paused.invocation_id, nextId,
                                            outcome, FALSE)
                /\ nextId' = nextId + 1 + Len(outcome.confirmation_requests)
                /\ pending' = IF again
                              THEN PausedCall(FreshId(nextId + 1),
                                              paused.invocation_id, paused.count)
                              ELSE None
                /\ agent' = IF again THEN "ended" ELSE "llm"
       ELSE /\ invocation' = FreshId(nextId)
            /\ nextId' = nextId + 1
            /\ outbox' = << >>
            /\ agent' = "llm"
            /\ UNCHANGED << toolLog, pending >>
    /\ typed' = None
    /\ UNCHANGED << mcpVars, wfVars, replVars, script, runs, query, auto_approve, session_id, events,
                    approval_info, is_approved, sessions, unresolved, steps,
                    api_key, prev, completed, applied >>

\* The body of the resume loop: the event's texts are printed; the event is
\* neither kept nor scanned.
ConsumeResumedEvent ==
    /\ pc = "resuming"
    /\ outbox # << >>
    /\ outbox' = Tail(outbox)
    /\ UNCHANGED << mcpVars, wfVars, replVars, histVars, script, pc, runs, query, auto_approve, session_id,
                    events, approval_info, is_approved, calls, sessions,
                    pending, unresolved, agent, invocation, steps, nextId,
                    toolLog, applied >>

\* The resume loop ends with the event sequence; the workflow function returns.
FinishResume ==
    /\ pc = "resuming"
    /\ outbox = << >>
    /\ agent = "ended"
    /\ pc' = "done"
    /\ agent' = "idle"
    /\ UNCHANGED << mcpVars, wfVars, replVars, histVars, script, runs, ctlVars, sessions, pending, unresolved,
                    invocation, outbox, steps, nextId, toolLog, applied >>

\* print_agent_text(events) prints a line: some event has a part with text.
AgentTextPrinted(evs) ==
    \E i \in DOMAIN evs :
        /\ HasParts(evs[i])
        /\ \E j \in DOMAIN evs[i].content[1].parts :
             Truthy(evs[i].content[1].parts[j].text)

\* Mutant: a run that ends with nothing to print is raised as an error.
CompleteWithoutPause_strict ==
    /\ pc = "no_pause"
    /\ pc' = IF AgentTextPrinted(events) THEN "done" ELSE "fatal"
    /\ agent' = "idle"
    /\ UNCHANGED << mcpVars, wfVars, replVars, histVars, script, runs, ctlVars, sessions, pending,
                    unresolved, invocation, outbox, steps, nextId, toolLog,
                    applied >>

\* Mutant: the query is sent once more when no pause was found.
CompleteWithoutPause_resend ==
    /\ pc = "no_pause"
    /\ pc' = "done"
    /\ agent' = "idle"
    /\ calls' = Append(calls, RunAsyncCall(script, session_id,
                                           QueryContent(query), None))
    /\ UNCHANGED << mcpVars, wfVars, replVars, histVars, script, runs, query, auto_approve, session_id,
                    events, approval_info, is_approved, sessions, pending,
                    unresolved, invocation, outbox, steps, nextId, toolLog,
                    applied >>

\* else: "Workflow Completed without pause."; the workflow function returns.
CompleteWithoutPause ==
    /\ pc = "no_pause"
    /\ pc' = "done"
    /\ agent' = "idle"
    /\ UNCHANGED << mcpVars, wfVars, replVars, histVars, script, runs, ctlVars, sessions, pending, unresolved,
                    invocation, outbox, steps, nextId, toolLog, applied >>

\* Back in the `while True:` menu loop of main / main_logic; the workflow
\* function's locals are gone. A request still unanswered stays with the
\* run's session in the store, where nothing reads it again.
WorkflowReturns ==
    /\ pc = "done"
    /\ pc' = "menu"
    /\ query' = 0
    /\ auto_approve' = TRUE
    /\ session_id' = 0
    /\ events' = << >>
    /\ approval_info' = None
    /\ is_approved' = None
    /\ calls' = << >>
    /\ toolLog' = << >>
    /\ invocation' = NoId
    /\ steps' = 0
    /\ nextId' = 1
    /\ pending' = None
    /\ unresolved' = IF Truthy(pending) THEN unresolved \cup {session_id}
                                        ELSE unresolved
    /\ UNCHANGED << mcpVars, wfVars, replVars, script, runs, sessions, agent, outbox, applied >>

ReturnToMenu ==
    /\ WorkflowReturns
    /\ UNCHANGED histVars

\* A round of the prompt loop in which a valid answer is typed.
PromptValid == Prompt /\ pc' = "resume"

\* ------------------------------------------------- agent execution service
AgentMayAct ==
    /\ pc \in {"running", "resuming"}
    /\ agent = "llm"
    /\ outbox = << >>

\* The agent answers with a text.
AgentText ==
    /\ AgentMayAct
    /\ steps < MaxSteps
    /\ outbox' = << Event(invocation, Content("model", << TextPart(<<"answer">>) >>)) >>
    /\ steps' = steps + 1
    /\ UNCHANGED << mcpVars, wfVars, replVars, histVars, script, pc, runs, ctlVars, sessions, pending, unresolved,
                    agent, invocation, nextId, toolLog, applied >>

\* The service yields an event without content, or with no parts.
AgentEmptyEvent ==
    /\ AgentMayAct
    /\ steps < MaxSteps
    /\ \E content \in {None, Content("model", << >>)} :
         outbox' = << Event(invocation, content) >>
    /\ steps' = steps + 1
    /\ UNCHANGED << mcpVars, wfVars, replVars, histVars, script, pc, runs, ctlVars, sessions, pending, unresolved,
                    agent, invocation, nextId, toolLog, applied >>

\* The agent calls the gated tool (no confirmation attached). The first call
\* of a run asks for the query's quantity; a later call may ask for any.
\* A request_confirmation call makes the service emit the confirmation
\* request, record the paused call and suspend the invocation.
AgentCallsTool ==
    /\ AgentMayAct
    /\ steps < MaxSteps
    /\ \E count \in (IF toolLog = << >> THEN {query} ELSE Counts(script)) :
         LET outcome == GatedTool(script, count, None)
             paused == outcome.confirmation_requests # << >>
         IN  /\ toolLog' = Append(toolLog,
                    ToolLogEntry(count, None, outcome,
                                 IF pc = "running" THEN "initial" ELSE "resumed"))
             /\ outbox' = ToolCallEvents(invocation, nextId, outcome, TRUE)
             /\ nextId' = nextId + 1 + Len(outcome.confirmation_requests)
             /\ pending' = IF paused
                           THEN PausedCall(FreshId(nextId + 1), invocation, count)
                           ELSE pending
             /\ agent' = IF paused THEN "ended" ELSE "llm"
    /\ steps' = steps + 1
    /\ UNCHANGED << mcpVars, wfVars, replVars, histVars, script, pc, runs, ctlVars, sessions, unresolved,
                    invocation, applied >>

\* The agent's turn is over: the event sequence ends.
AgentFinish ==
    /\ AgentMayAct
    /\ agent' = "ended"
    /\ UNCHANGED << mcpVars, wfVars, replVars, histVars, script, pc, runs, ctlVars, sessions, pending, unresolved,
                    invocation, outbox, steps, nextId, toolLog, applied >>

Next ==
    \/ Startup
    \/ RunMcpDemo \/ McpDemoRuns
    \/ MenuChoice \/ MenuQuit \/ CreateSession \/ StartInitialRun
    \/ ConsumeInitialEvent \/ CheckForPause \/ AutoDecide \/ Prompt
    \/ StartResume \/ ConsumeResumedEvent \/ FinishResume
    \/ CompleteWithoutPause \/ ReturnToMenu
    \/ AgentText \/ AgentEmptyEvent \/ AgentCallsTool \/ AgentFinish

Spec == Init /\ [][Next]_vars

\* The workflow function runs on once started: its decision, its resume call
\* and its resume loop are taken when they can be. Every event sequence of
\* the execution service is finite, and at the approval prompt a valid
\* answer is eventually typed.
WorkflowProgress ==
    \/ AutoDecide \/ PromptValid \/ StartResume \/ ConsumeResumedEvent
    \/ FinishResume \/ AgentFinish

\* The program with MaxLiveRuns workflow runs.
LiveMenuChoice == MenuChoiceUpTo(MaxLiveRuns)

LiveNext ==
    \/ Startup
    \/ RunMcpDemo \/ McpDemoRuns
    \/ LiveMenuChoice \/ MenuQuit \/ CreateSession \/ StartInitialRun
    \/ ConsumeInitialEvent \/ CheckForPause \/ AutoDecide \/ Prompt
    \/ StartResume \/ ConsumeResumedEvent \/ FinishResume
    \/ CompleteWithoutPause \/ ReturnToMenu
    \/ AgentText \/ AgentEmptyEvent \/ AgentCallsTool \/ AgentFinish

LiveSpec == Init /\ [][LiveNext]_vars /\ WF_vars(WorkflowProgress)

\* ------------------------------------------- runs in succession, with history
\* ReturnToMenu, keeping a record of the run that returns: its session id,
\* and its query when the run was paused over it and the decision approved.
ReturnToMenuRecording ==
    /\ WorkflowReturns
    /\ UNCHANGED << mcpVars, wfVars, replVars, api_key, typed >>
    /\ prev' = IF query > Threshold(script) /\ is_approved = Some(TRUE)
               THEN Some(query) ELSE None
    /\ completed' = completed \cup {session_id}

SuccessionNext ==
    \/ Startup
    \/ RunMcpDemo \/ McpDemoRuns
    \/ MenuChoice \/ MenuQuit \/ CreateSession \/ StartInitialRun
    \/ ConsumeInitialEvent \/ CheckForPause \/ AutoDecide \/ Prompt
    \/ StartResume \/ ConsumeResumedEvent \/ FinishResume
    \/ CompleteWithoutPause \/ ReturnToMenuRecording
    \/ AgentText \/ AgentEmptyEvent \/ AgentCallsTool \/ AgentFinish

SuccessionSpec == Init /\ [][SuccessionNext]_vars

\* ------------------------------------------- running a multi-agent workflow
Def(n) == CHOOSE a \in System(workflow).agents : a.name = n
Members == { a.name : a \in System(workflow).agents }
Root == System(workflow).root
SubAgents(p) == { Def(p).sub_agents[i] : i \in DOMAIN Def(p).sub_agents }

WorkflowRunning ==
    /\ workflow # "none"
    /\ status[Root] = "running"
    /\ \A n \in Members : status[n] # "failed"

\* run_workflow: runner = InMemoryRunner(agent=agent); runner.run_debug(query).
\* The runner starts the root agent on a new session with empty state.
\* main reaches it only when setup_environment() did not raise.
run_workflow ==
    /\ script = "multi_agent"
    /\ setup_environment(api_key) = "ok"
    /\ workflow = "none"
    /\ \E w \in Workflows :
         /\ workflow' = w
         /\ status' = [n \in AgentNames |->
                         IF n = System(w).root THEN "running" ELSE "idle"]
         /\ trace' = << << "start", System(w).root >> >>
    /\ position' = [n \in AgentNames |-> 1]
    /\ times_looped' = [n \in AgentNames |-> 0]
    /\ session_state' = [k \in StateKeys |-> Unwritten]
    /\ escalate' = FALSE
    /\ UNCHANGED << mcpVars, replVars, histVars, script, pc, runs, ctlVars,
                    envVars, applied >>

\* The sub-agents a running workflow agent may start next: a sequential or
\* loop agent its current one, a parallel agent any it has not started.
MayStart(p) ==
    IF Def(p).kind = "parallel"
    THEN { c \in SubAgents(p) : status[c] = "idle" }
    ELSE IF Def(p).kind \in {"sequential", "loop"}
            /\ position[p] \in DOMAIN Def(p).sub_agents
            /\ status[Def(p).sub_agents[position[p]]] = "idle"
    THEN { Def(p).sub_agents[position[p]] }
    ELSE {}

\* A workflow agent starts a sub-agent. An LLM agent's instruction is filled
\* in from the session state when it starts; a placeholder whose key is not
\* in the state raises KeyError and the run fails.
StartSubAgent ==
    /\ WorkflowRunning
    /\ \E p \in Members : \E c \in MayStart(p) :
         /\ status[p] = "running"
         /\ IF \E k \in Def(c).placeholders : session_state[k] = Unwritten
            THEN /\ status' = [status EXCEPT ![c] = "failed"]
                 /\ trace' = Append(trace, << "KeyError", c >>)
            ELSE /\ status' = [status EXCEPT ![c] = "running"]
                 /\ trace' = Append(trace, << "start", c >>)
         /\ position' = [position EXCEPT ![c] = 1]
         /\ times_looped' = [times_looped EXCEPT ![c] = 0]
    /\ escalate' = escalate
    /\ UNCHANGED << workflow, session_state, mcpVars, replVars, histVars,
                    script, pc, runs, ctlVars, envVars, applied >>

\* A running LLM agent calls some of its tools and gives its final response,
\* which is stored in the session state under the agent's output_key.
\* escalate tells whether one of its events carried actions.escalate.
LlmAgentResponds ==
    /\ WorkflowRunning
    /\ \E c \in Members :
         /\ Def(c).kind = "llm"
         /\ status[c] = "running"
         /\ \E called \in SUBSET Def(c).tools :
              /\ trace' = trace
                     \o (IF called = {} THEN << >>
                         ELSE << << "tool", c, CHOOSE t \in called : TRUE >> >>)
                     \o << << "end", c >> >>
              /\ escalate' = \E t \in called : Tool(t).escalate
         /\ session_state' = [session_state EXCEPT ![Def(c).output_key] = c]
         /\ status' = [status EXCEPT ![c] = "done"]
    /\ UNCHANGED << workflow, position, times_looped, mcpVars, replVars,
                    histVars, script, pc, runs, ctlVars, envVars, applied >>

\* A sequential agent takes its next sub-agent when the current one has
\* finished, and finishes after the last.
SequentialAgentAdvances ==
    /\ WorkflowRunning
    /\ \E p \in Members :
         /\ Def(p).kind = "sequential"
         /\ status[p] = "running"
         /\ position[p] \in DOMAIN Def(p).sub_agents
         /\ status[Def(p).sub_agents[position[p]]] = "done"
         /\ position' = [position EXCEPT ![p] = position[p] + 1]
         /\ IF position[p] = Len(Def(p).sub_agents)
            THEN /\ status' = [status EXCEPT ![p] = "done"]
                 /\ trace' = Append(trace, << "end", p >>)
            ELSE UNCHANGED << status, trace >>
    /\ UNCHANGED << workflow, times_looped, session_state, escalate, mcpVars,
                    replVars, histVars, script, pc, runs, ctlVars, envVars,
                    applied >>

\* A parallel agent finishes when all its sub-agents have finished.
ParallelAgentFinishes ==
    /\ WorkflowRunning
    /\ \E p \in Members :
         /\ Def(p).kind = "parallel"
         /\ status[p] = "running"
         /\ \A c \in SubAgents(p) : status[c] = "done"
         /\ status' = [status EXCEPT ![p] = "done"]
         /\ trace' = Append(trace, << "end", p >>)
    /\ UNCHANGED << workflow, position, times_looped, session_state,
                    escalate, mcpVars, replVars, histVars, script, pc, runs,
                    ctlVars, envVars, applied >>

\* A loop agent, when its current sub-agent has finished: it stops if an
\* event of that sub-agent carried actions.escalate; else it takes the next
\* sub-agent, and after the last one counts the pass and either stops at
\* max_iterations or starts over.
LoopAgentAdvances ==
    /\ WorkflowRunning
    /\ \E p \in Members :
         /\ Def(p).kind = "loop"
         /\ status[p] = "running"
         /\ position[p] \in DOMAIN Def(p).sub_agents
         /\ status[Def(p).sub_agents[position[p]]] = "done"
         /\ IF escalate
            THEN /\ status' = [status EXCEPT ![p] = "done"]
                 /\ trace' = Append(trace, << "end", p >>)
                 /\ UNCHANGED << position, times_looped >>
            ELSE IF position[p] < Len(Def(p).sub_agents)
            THEN /\ position' = [position EXCEPT ![p] = position[p] + 1]
                 /\ UNCHANGED << status, times_looped, trace >>
            ELSE /\ times_looped' =
                      [times_looped EXCEPT ![p] = times_looped[p] + 1]
                 /\ IF times_looped[p] + 1 >= Def(p).max_iterations
                    THEN /\ status' = [status EXCEPT ![p] = "done"]
                         /\ trace' = Append(trace, << "end", p >>)
                         /\ position' = position
                    ELSE /\ status' = [n \in AgentNames |->
                                         IF n \in SubAgents(p) THEN "idle"
                                         ELSE status[n]]
                         /\ position' = [position EXCEPT ![p] = 1]
                         /\ trace' = trace
    /\ UNCHANGED << workflow, session_state, escalate, mcpVars, replVars,
                    histVars, script, pc, runs, ctlVars, envVars, applied >>

\* run_debug returns; run_workflow prints "COMPLETED" and returns. The next
\* run_workflow builds a new runner.
WorkflowCompleted ==
    /\ workflow # "none"
    /\ status[Root] = "done"
    /\ workflow' = "none"
    /\ status' = NoRunner
    /\ position' = NoRunner
    /\ times_looped' = NoRunner
    /\ session_state' = NoRunner
    /\ escalate' = FALSE
    /\ trace' = << >>
    /\ UNCHANGED << mcpVars, replVars, histVars, script, pc, runs, ctlVars,
                    envVars, applied >>

PipelineNext ==
    \/ run_workflow \/ StartSubAgent \/ LlmAgentResponds
    \/ SequentialAgentAdvances \/ ParallelAgentFinishes \/ LoopAgentAdvances
    \/ WorkflowCompleted

PipelineSpec == InitFor({"multi_agent"}) /\ [][PipelineNext]_vars

\* ------------------- interactive_mode (Day1/agent, Day2/Agent_Tools scripts)
\* Lines the user may type at "Your question: ".
Questions ==
    { << >>, <<" ">>, <<"q">>, <<" ", "Q", "\t">>,
      <<"e", "x", "i", "t">>, <<"E", "x", "i", "t", " ">>,
      <<"Q", "U", "I", "T">>,
      <<"h", "i">>, <<"q", "u", "i", "t", "e">>, <<"e", "x", "i", "t", " ", "q">> }

ExitWords ==
    { <<"e", "x", "i", "t">>, <<"q", "u", "i", "t">>, <<"q">>, << >> }

\* `query = input(...).strip()`; `query.lower() in ['exit', 'quit', 'q', '']`.
leaves(typed_line) == lower(strip(typed_line)) \in ExitWords

\* main reaches interactive_mode (choice 2 or 3) when setup_environment()
\* did not raise.
interactive_mode ==
    /\ script \in {"agent", "agent_tools"}
    /\ setup_environment(api_key) = "ok"
    /\ repl = "off"
    /\ repl' = "prompt"
    /\ UNCHANGED << user_input, mcpVars, wfVars, histVars, script, pc, runs,
                    ctlVars, envVars, applied >>

\* input() returns a line: an exit word says goodbye and breaks, any other
\* line is handed to run_agent_query.
ReadQuestion ==
    /\ repl = "prompt"
    /\ Len(ran) < MaxQueries
    /\ Len(printed) < MaxQueries
    /\ \E typed_line \in Questions :
         /\ user_input' = typed_line
         /\ IF leaves(typed_line)
            THEN /\ printed' = Append(printed, "Goodbye!")
                 /\ repl' = "ended"
                 /\ ran' = ran
            ELSE /\ ran' = Append(ran, strip(typed_line))
                 /\ repl' = "running"
                 /\ printed' = printed
    /\ UNCHANGED << mcp_tool, agents, wfVars, histVars, script, pc, runs,
                    ctlVars, envVars, applied >>

\* input() raises an exception other than KeyboardInterrupt (end of input):
\* `except Exception as e: print("Error")`, and the loop goes on.
InputRaises ==
    /\ repl = "prompt"
    /\ Len(printed) < MaxQueries
    /\ printed' = Append(printed, "Error")
    /\ UNCHANGED << repl, user_input, ran, mcp_tool, agents, wfVars, histVars,
                    script, pc, runs, ctlVars, envVars, applied >>

\* await run_agent_query(runner, query) returns.
QueryCompletes ==
    /\ repl = "running"
    /\ repl' = "prompt"
    /\ UNCHANGED << user_input, mcpVars, wfVars, histVars, script, pc, runs,
                    ctlVars, envVars, applied >>

\* Mutant: an exception of the query ends the loop.
QueryRaises_breaks ==
    /\ repl = "running"
    /\ printed' = Append(printed, "Error")
    /\ repl' = "ended"
    /\ UNCHANGED << user_input, ran, mcp_tool, agents, wfVars, histVars,
                    script, pc, runs, ctlVars, envVars, applied >>

\* await run_agent_query(runner, query) raises:
\* `except Exception as e: print("Error")`, and the loop goes on.
QueryRaises ==
    /\ repl = "running"
    /\ printed' = Append(printed, "Error")
    /\ repl' = "prompt"
    /\ UNCHANGED << user_input, ran, mcp_tool, agents, wfVars, histVars,
                    script, pc, runs, ctlVars, envVars, applied >>

\* `except KeyboardInterrupt: print("Interrupted. Goodbye!"); break`, at the
\* prompt or while the query runs.
KeyboardInterrupt ==
    /\ repl \in {"prompt", "running"}
    /\ printed' = Append(printed, "Interrupted. Goodbye!")
    /\ repl' = "ended"
    /\ UNCHANGED << user_input, ran, mcp_tool, agents, wfVars, histVars,
                    script, pc, runs, ctlVars, envVars, applied >>

InteractiveNext ==
    \/ interactive_mode \/ ReadQuestion \/ InputRaises \/ QueryCompletes
    \/ QueryRaises \/ KeyboardInterrupt

InteractiveSpec ==
    InitFor({"agent", "agent_tools"}) /\ [][InteractiveNext]_vars

\* ------------------------------------------- the helpers applied on their own
\* Quantities a gated tool is applied to: up to T + Spread, and the
\* quantities of the menu queries.
ArgCounts(s) ==
    (0 .. (Threshold(s) + Spread)) \cup { e[1] : e \in MenuEntries(s) }

SampleIds == { <<1, 1>>, <<1, 2>> }

\* Event contents the scan is applied to.
SampleContents ==
    { None,
      Content("model", << >>),
      Content("model", << TextPart(<<"answer">>) >>),
      Content("model", << CallPart(CONFIRM, <<1, 3>>) >>),
      Content("model", << CallPart("getTinyImage", <<1, 4>>),
                          CallPart(CONFIRM, <<1, 5>>) >>),
      Content("model", << CallPart(CONFIRM, <<1, 6>>),
                          CallPart(CONFIRM, <<1, 7>>) >>),
      Content("model", << TextPart(<<"answer">>),
                          CallPart("place_shipping_order", <<1, 8>>) >>) }

SampleEvents == { Event(inv, c) : inv \in SampleIds, c \in SampleContents }

SampleEventLists ==
    UNION { [1 .. n -> SampleEvents] : n \in 0 .. MaxScanLen }

ApplyGatedTool ==
    /\ applied = NotApplied
    /\ \E count \in ArgCounts(script), conf \in ConfStates :
         applied' = [fn |-> "gated_tool", count |-> count,
                     tool_confirmation |-> conf,
                     outcome |-> GatedTool(script, count, conf)]
    /\ UNCHANGED << mcpVars, wfVars, replVars, histVars, script, pc, runs, ctlVars, envVars >>

ApplyScan ==
    /\ applied = NotApplied
    /\ \E evs \in SampleEventLists :
         applied' = [fn |-> "scan", events |-> evs,
                     result |-> ScanForPause(script, evs)]
    /\ UNCHANGED << mcpVars, wfVars, replVars, histVars, script, pc, runs, ctlVars, envVars >>

\* Payment methods and currency codes the lookups are applied to.
SampleMethods ==
    { PLATINUM, GOLD, BANK,
      <<"B", "a", "n", "k", " ", "T", "r", "a", "n", "s", "f", "e", "r">>, <<"G", "O", "L", "D", " ", "D", "E", "B", "I", "T", " ", "C", "A", "R", "D">>,
      <<" ", "b", "a", "n", "k", " ", "t", "r", "a", "n", "s", "f", "e", "r">>, <<"p", "a", "y", "p", "a", "l">>, <<"b", "a", "n", "k">>, << >> }

SampleCurrencies ==
    { <<"U", "S", "D">>, <<"u", "s", "d">>, <<"E", "u", "r">>, <<"e", "u", "r">>, <<"J", "P", "Y">>, <<"i", "n", "r">>, <<"g", "b", "p">>, <<"u", "s", "d", " ">>, << >> }

ApplyFee ==
    /\ applied = NotApplied
    /\ \E method \in SampleMethods :
         applied' = [fn |-> "fee", method |-> method,
                     result |-> get_fee_for_payment_method(method)]
    /\ UNCHANGED << mcpVars, wfVars, replVars, histVars, script, pc, runs, ctlVars, envVars >>

ApplyRate ==
    /\ applied = NotApplied
    /\ \E base \in SampleCurrencies, target \in SampleCurrencies :
         applied' = [fn |-> "rate", base |-> base, target |-> target,
                     result |-> get_exchange_rate(base, target)]
    /\ UNCHANGED << mcpVars, wfVars, replVars, histVars, script, pc, runs, ctlVars, envVars >>

HelperNext == ApplyGatedTool \/ ApplyScan \/ ApplyFee \/ ApplyRate

HelperSpec == Init /\ [][HelperNext]_vars

\* ---------------------------------------------------------------- properties
\* Vocabulary of the properties, stated without the scan's own definitions.
PartsOf(event) ==
    IF event.content = << >> THEN << >> ELSE event.content[1].parts

IsRequestPart(part) ==
    /\ part.function_call # << >>
    /\ part.function_call[1].name = "adk_request_confirmation"

\* The positions << i, j >> of the confirmation requests in an event list.
RequestPositions(evs) ==
    { pos \in UNION { { <<i, j>> : j \in DOMAIN PartsOf(evs[i]) } : i \in DOMAIN evs } :
        IsRequestPart(PartsOf(evs[pos[1]])[pos[2]]) }

\* The controller has scanned the initial run's events.
Scanned == pc \in {"paused", "no_pause", "resume", "resuming", "done"}

\* The run took the resume branch.
TookResumeBranch ==
    \/ pc \in {"paused", "resume", "resuming"}
    \/ pc = "done" /\ Len(calls) = 3

InitialCalls == { i \in DOMAIN toolLog : toolLog[i].phase = "initial" }

\* The resume call of the current run, once issued.
Resumed == Len(calls) = 3
ResumeOf(cs) == cs[3]
DecisionOf(cs) == ResumeOf(cs).new_message[1].parts[1].function_response[1]

\* C1: when the gated tool was called in the first run with count > T, the
\* events of the first run hold exactly one confirmation request, the scan
\* returns that request (its id and its event's invocation id), and the run
\* is PAUSED, that is, it takes the resume branch.
C1_OverThresholdPauses ==
    (Scanned /\ \E i \in InitialCalls : toolLog[i].count > Threshold(script))
    => /\ Cardinality(RequestPositions(events)) = 1
       /\ \A pos \in RequestPositions(events) :
            /\ Truthy(approval_info)
            /\ RequestIdOf(script, approval_info[1])
                 = PartsOf(events[pos[1]])[pos[2]].function_call[1].id
            /\ approval_info[1].invocation_id = events[pos[1]].invocation_id
       /\ TookResumeBranch

C1_Witness ==
    /\ pc = "paused"
    /\ \E i \in InitialCalls : toolLog[i].count > Threshold(script)
    /\ Cardinality(RequestPositions(events)) = 1

\* C2: a call with count <= T and no confirmation attached returns the
\* auto-approved result and makes no request_confirmation call; when every
\* call of the first run had count <= T, the scan finds no confirmation
\* request and the run completes with no pause and no resume call.
C2_WithinThresholdCompletes ==
    /\ \A i \in DOMAIN toolLog :
         (toolLog[i].count <= Threshold(script) /\ toolLog[i].tool_confirmation = << >>)
         => /\ toolLog[i].outcome.result.status = ApprovedStatus(script)
            /\ toolLog[i].outcome.confirmation_requests = << >>
            /\ script = "shipping"
                 => toolLog[i].outcome.result.order_id
                      = <<"ORD", toolLog[i].count, "AUTO">>
    /\ (Scanned /\ InitialCalls # {}
          /\ \A i \in InitialCalls : toolLog[i].count <= Threshold(script))
       => /\ RequestPositions(events) = {}
          /\ approval_info = << >>
          /\ pc \in {"no_pause", "done"}
          /\ Len(calls) = 2

C2_Witness ==
    /\ pc = "done"
    /\ InitialCalls # {}
    /\ \A i \in InitialCalls : toolLog[i].count <= Threshold(script)
    /\ Len(calls) = 2

\* C3: the paused call, resumed with approved = true, returns the approved
\* status, and resumed with approved = false the rejected status; a resumed
\* call returns nothing else and requests no confirmation again.
C3_ResumeOutcomes ==
    \A i \in DOMAIN toolLog :
      toolLog[i].tool_confirmation # << >>
      => /\ Resumed
         /\ toolLog[i].tool_confirmation[1].confirmed
              = DecisionOf(calls).response.confirmed
         /\ toolLog[i].outcome.confirmation_requests = << >>
         /\ toolLog[i].outcome.result.status
              = (IF DecisionOf(calls).response.confirmed
                 THEN ApprovedStatus(script) ELSE RejectedStatus(script))
         /\ toolLog[i].outcome.result.status # PendingStatus(script)

C3_Witness ==
    /\ pc = "done"
    /\ \E i \in DOMAIN toolLog :
         /\ toolLog[i].tool_confirmation = << [confirmed |-> FALSE] >>
         /\ toolLog[i].outcome.result.status = RejectedStatus(script)

\* The first confirmation request of an event list, in scan order.
IsFirstRequest(evs, pos) ==
    /\ pos \in RequestPositions(evs)
    /\ \A q \in RequestPositions(evs) :
         pos[1] < q[1] \/ (pos[1] = q[1] /\ pos[2] <= q[2])

RequestIdAt(evs, pos) == PartsOf(evs[pos[1]])[pos[2]].function_call[1].id

\* C4 (as claimed): with a confirmation attached the result follows the
\* approved flag alone, for every count: granted gives the human-approved
\* result, denied the rejected result, also when count <= T.
C4_ResumedCallIgnoresThreshold ==
    (applied.fn = "gated_tool" /\ applied.tool_confirmation # << >>)
    => IF applied.tool_confirmation[1].confirmed
       THEN /\ applied.outcome.result.status = ApprovedStatus(script)
            /\ script = "shipping"
                 => applied.outcome.result.order_id
                      = <<"ORD", applied.count, "HUMAN">>
       ELSE applied.outcome.result.status = RejectedStatus(script)

\* The outcome of the order the query asks for: the first call's result, or
\* the result of its resumed call when the first call paused.
FirstOrderResult ==
    IF toolLog[1].outcome.confirmation_requests # << >> /\ Len(toolLog) >= 2
    THEN toolLog[2].outcome.result
    ELSE toolLog[1].outcome.result

\* C5: the shipping workflow, T = 5, at its end: the order for 3 containers
\* is approved at once with order id ORD-3-AUTO (and the run, if it placed
\* no other order, made no resume call); the order for 10 with decision
\* approve ends approved with ORD-10-HUMAN; the order for 8 with decision
\* reject ends rejected with no order_id in the result.
C5_EndToEnd ==
    (script = "shipping" /\ pc = "done" /\ toolLog # << >>)
    => /\ LARGE_ORDER_THRESHOLD = 5
       /\ toolLog[1].count = query
       /\ query = 3
            => /\ toolLog[1].outcome.confirmation_requests = << >>
               /\ FirstOrderResult.status = "approved"
               /\ FirstOrderResult.order_id = <<"ORD", 3, "AUTO">>
               /\ InitialCalls = {1} => ~Resumed
       /\ (query = 10 /\ auto_approve)
            => /\ Resumed
               /\ toolLog[2].count = 10
               /\ toolLog[2].tool_confirmation = << [confirmed |-> TRUE] >>
               /\ FirstOrderResult.status = "approved"
               /\ FirstOrderResult.order_id = <<"ORD", 10, "HUMAN">>
       /\ (query = 8 /\ ~auto_approve)
            => /\ Resumed
               /\ toolLog[2].count = 8
               /\ toolLog[2].tool_confirmation = << [confirmed |-> FALSE] >>
               /\ FirstOrderResult.status = "rejected"
               /\ "order_id" \notin DOMAIN FirstOrderResult

C5_Witness ==
    /\ script = "shipping" /\ pc = "done" /\ toolLog # << >>
    /\ query = 10 /\ auto_approve
    /\ FirstOrderResult.order_id = <<"ORD", 10, "HUMAN">>

\* C6: a resume call carries a decision message as new_message and, as
\* invocation_id, the invocation id of the event holding the first
\* confirmation request of the initial run; it goes to the user id and
\* session id of create_session and of the initial run_async call.
C6_ResumeCarriesInvocation ==
    /\ pc = "resuming" => Resumed
    /\ Resumed
       => /\ calls[1].op = "create_session"
          /\ calls[2].op = "run_async" /\ calls[2].invocation_id = << >>
          /\ ResumeOf(calls).op = "run_async"
          /\ ResumeOf(calls).user_id = calls[2].user_id
          /\ ResumeOf(calls).user_id = calls[1].user_id
          /\ ResumeOf(calls).session_id = calls[2].session_id
          /\ ResumeOf(calls).session_id = calls[1].session_id
          /\ ResumeOf(calls).session_id = session_id
          /\ Len(ResumeOf(calls).new_message[1].parts) = 1
          /\ ResumeOf(calls).new_message[1].parts[1].function_response # << >>
          /\ \E pos \in RequestPositions(events) :
               /\ IsFirstRequest(events, pos)
               /\ ResumeOf(calls).invocation_id
                    = << events[pos[1]].invocation_id >>

C6_Witness ==
    /\ pc = "resuming"
    /\ Resumed
    /\ RequestPositions(events) # {}

\* C7: the decision message sent on resume is a user content of one part, a
\* function response named adk_request_confirmation whose id is the id of
\* the first confirmation request found in the events, and whose response
\* holds the key confirmed only, set to the decision of the decision source.
C7_DecisionMessage ==
    Resumed
    => LET msg == ResumeOf(calls).new_message[1]
           fr == DecisionOf(calls)
       IN  /\ msg.role = "user"
           /\ Len(msg.parts) = 1
           /\ msg.parts[1].text = << >>
           /\ msg.parts[1].function_call = << >>
           /\ fr.name = "adk_request_confirmation"
           /\ \E pos \in RequestPositions(events) :
                /\ IsFirstRequest(events, pos)
                /\ fr.id = RequestIdAt(events, pos)
           /\ DOMAIN fr.response = {"confirmed"}
           /\ fr.response.confirmed \in BOOLEAN
           /\ fr.response.confirmed
                = (IF script = "image_human" THEN is_approved[1]
                                             ELSE auto_approve)

C7_Witness ==
    /\ Resumed
    /\ script = "shipping"
    /\ ~auto_approve
    /\ DecisionOf(calls).response = [confirmed |-> FALSE]

\* C8: the scan returns nothing when no event holds a confirmation request;
\* otherwise it returns the request id of the first such part of the first
\* such event, with that event's invocation id, and nothing else; events
\* with no content or no parts are passed over.
C8_ScanReturnsFirst ==
    applied.fn = "scan"
    => IF RequestPositions(applied.events) = {}
       THEN applied.result = << >>
       ELSE /\ Len(applied.result) = 1
            /\ DOMAIN applied.result[1]
                 = (IF script = "shipping" THEN {"approval_id", "invocation_id"}
                                           ELSE {"id", "invocation_id"})
            /\ \E pos \in RequestPositions(applied.events) :
                 /\ IsFirstRequest(applied.events, pos)
                 /\ RequestIdOf(script, applied.result[1])
                      = RequestIdAt(applied.events, pos)
                 /\ applied.result[1].invocation_id
                      = applied.events[pos[1]].invocation_id

C8_Witness ==
    /\ applied.fn = "scan"
    /\ Len(applied.events) = 2
    /\ applied.events[1].content = << >>
    /\ Cardinality(RequestPositions(applied.events)) = 2
    /\ applied.result # << >>

RECURSIVE SumRequests(_, _)
SumRequests(log, i) ==
    IF i > Len(log) THEN 0
    ELSE Len(log[i].outcome.confirmation_requests) + SumRequests(log, i + 1)

\* Confirmation requests of the current run that no decision has answered.
Outstanding ==
    SumRequests(toolLog, 1)
      - Cardinality({ i \in DOMAIN toolLog : toolLog[i].tool_confirmation # << >> })

\* C9: a gated call over the threshold has a final (non-pending) result only
\* after its request was issued and a decision naming that request's id was
\* sent with the invocation id of the request's event; a run that found a
\* request in its initial events returns only after answering it; and at
\* most one request of the run is unanswered at any time.
C9_RequestAnsweredFirst ==
    /\ Outstanding \in {0, 1}
    /\ \A i \in DOMAIN toolLog :
         (/\ toolLog[i].count > Threshold(script)
          /\ toolLog[i].outcome.result.status # PendingStatus(script))
         => /\ \E j \in 1 .. (i - 1) :
                 /\ toolLog[j].count = toolLog[i].count
                 /\ toolLog[j].outcome.confirmation_requests # << >>
            /\ Resumed
            /\ \E pos \in RequestPositions(events) :
                 /\ IsFirstRequest(events, pos)
                 /\ DecisionOf(calls).id = RequestIdAt(events, pos)
                 /\ ResumeOf(calls).invocation_id
                      = << events[pos[1]].invocation_id >>
    /\ (pc = "done" /\ RequestPositions(events) # {})
       => /\ Resumed
          /\ \E i \in DOMAIN toolLog : toolLog[i].tool_confirmation # << >>

C9_Witness ==
    /\ pc = "done"
    /\ Outstanding = 0
    /\ \E i \in DOMAIN toolLog :
         /\ toolLog[i].count > Threshold(script)
         /\ toolLog[i].outcome.result.status # PendingStatus(script)

\* C10 (as claimed): when the resumed event sequence holds a further
\* confirmation request, the run pauses again and a further decision and
\* resume call follow before the workflow returns.
C10_ChainedPauseHandled ==
    (/\ pc = "done"
     /\ \E i \in DOMAIN toolLog :
          /\ toolLog[i].phase = "resumed"
          /\ toolLog[i].outcome.confirmation_requests # << >>)
    => Len(calls) > 3

C12_DecisionAfterExhaustion ==
    /\ pc \in {"create_session", "initial_run", "running"}
         => /\ approval_info = << >>
            /\ is_approved = << >>
            /\ ~Resumed
    /\ pc \in {"paused", "resume"}
         => /\ outbox = << >>
            /\ agent = "ended"
            /\ Len(calls) = 2
            /\ calls[1].op = "create_session"
            /\ calls[2].op = "run_async"
            /\ calls[2].invocation_id = << >>

C12_Witness ==
    /\ script = "image_human"
    /\ pc = "paused"
    /\ is_approved = << >>
    /\ Len(events) >= 3

\* C14: no two workflow runs obtain the same session id: create_session is
\* never called with an id the session store already holds.
C14_DistinctSessionIds ==
    [][(pc = "create_session") => (session_id' \notin sessions)]_vars

\* C15: the decision of an earlier run has no effect on a later run: the
\* first call of a run carries no confirmation, the run pauses exactly when
\* one of its own initial calls is over the threshold, an automated run
\* decides by its own parameter, and the resumed call ends as this run's
\* decision says.
C15_NoLeakBetweenRuns ==
    /\ toolLog # << >> => toolLog[1].tool_confirmation = << >>
    /\ Scanned =>
         (TookResumeBranch <=>
            \E i \in InitialCalls : toolLog[i].count > Threshold(script))
    /\ (script \in {"shipping", "image_auto"} /\ is_approved # << >>)
         => is_approved = << auto_approve >>
    /\ Resumed =>
         /\ DecisionOf(calls).response.confirmed = is_approved[1]
         /\ \A i \in DOMAIN toolLog :
              toolLog[i].tool_confirmation # << >>
              => /\ toolLog[i].tool_confirmation = << [confirmed |-> is_approved[1]] >>
                 /\ toolLog[i].outcome.result.status =
                      (IF is_approved[1] THEN ApprovedStatus(script)
                       ELSE RejectedStatus(script))

\* The same query as the previous run, which was approved, in a new session:
\* the run paused again and, rejected, ends rejected.
C15_Witness ==
    /\ prev = << query >>
    /\ session_id \notin completed
    /\ pc = "done"
    /\ is_approved = << FALSE >>
    /\ Len(toolLog) = 2
    /\ toolLog[2].outcome.result.status = RejectedStatus(script)

\* C16: a run calls the execution service at most twice, both times on its
\* own session, the second time only when the scan found a pause; once the
\* run is COMPLETED it makes no further call.
C16_CompletedIsTerminal ==
    [][/\ Len(calls') <= 3
       /\ \A i \in DOMAIN calls' :
            /\ (i = 1) <=> (calls'[i].op = "create_session")
            /\ calls'[i].session_id = session_id'
       /\ Len(calls') = 3 => approval_info' # << >>
       /\ pc = "done" => (calls' = << >> /\ pc' = "menu")]_vars

C16_Witness ==
    /\ pc = "done"
    /\ Len(calls) = 3
    /\ calls[3].op = "run_async"
    /\ runs = 2

\* C17: a run whose scan found no confirmation request completes: from
\* there it goes to COMPLETED, never to an error, without a further call,
\* also when no event carried a text or there was no event at all.
C17_NoPauseCompletes ==
    [][/\ (Scanned' /\ RequestPositions(events') = {})
            => (pc' \in {"no_pause", "done"} /\ Len(calls') = 2)
       /\ pc = "no_pause" => (pc' = "done" /\ calls' = calls)]_vars

C17_Witness ==
    /\ pc = "done"
    /\ Len(calls) = 2
    /\ events # << >>
    /\ toolLog = << >>
    /\ \A i \in DOMAIN events :
         \A j \in DOMAIN PartsOf(events[i]) : PartsOf(events[i])[j].text = << >>

\* C18: with GOOGLE_API_KEY missing every script stops at startup: past
\* setup_environment the run is in the fatal end state, and no workflow was
\* started and no collaborator called.
C18_MissingKeyIsFatal ==
    (~api_key /\ pc # "start")
    => (pc = "fatal" /\ runs = 0 /\ calls = << >>)

\* A line that is the word, in any case, between spaces and tabs.
Upper(c) ==
    CASE c = "y" -> "Y" [] c = "e" -> "E" [] c = "s" -> "S"
      [] c = "n" -> "N" [] c = "o" -> "O"

Spells(line, word) ==
    \E first \in 1 .. Len(line) :
        LET last == first + Len(word) - 1 IN
        /\ last <= Len(line)
        /\ \A k \in 1 .. Len(line) :
             IF k \in first .. last
             THEN line[k] \in {word[k - first + 1], Upper(word[k - first + 1])}
             ELSE line[k] \in {" ", "\t"}

SaysYes(line) == Spells(line, <<"y">>) \/ Spells(line, <<"y", "e", "s">>)
SaysNo(line) == Spells(line, <<"n">>) \/ Spells(line, <<"n", "o">>)

\* C20: in the interactive workflow every line read at the prompt of a
\* paused run either is y/yes or n/no (in any case, between blanks) and ends
\* the loop with that decision, or leaves the run PAUSED with no decision; no
\* call is made while prompting, and the resume call that follows carries
\* the decision of the line that ended the loop.
C20_PromptLoop ==
    [][/\ (script = "image_human" /\ pc = "paused")
            => /\ typed' # << >>
               /\ calls' = calls
               /\ Len(calls) = 2
               /\ IF SaysYes(typed'[1]) \/ SaysNo(typed'[1])
                  THEN /\ pc' = "resume"
                       /\ is_approved' = << SaysYes(typed'[1]) >>
                  ELSE /\ pc' = "paused"
                       /\ is_approved' = << >>
       /\ (script = "image_human" /\ pc = "resume")
            => /\ typed # << >>
               /\ Len(calls') = 3
               /\ DecisionOf(calls').response.confirmed = SaysYes(typed[1])
      ]_vars

C20_Witness ==
    /\ script = "image_human"
    /\ pc = "resuming"
    /\ is_approved = << FALSE >>
    /\ Len(calls) = 3
    /\ DecisionOf(calls).response.confirmed = FALSE

\* Two strings that differ at most in the case of their letters.
Lowers ==
    <<"a", "b", "c", "d", "e", "f", "g", "h", "i", "j", "k", "l", "m", "n", "o", "p", "q", "r", "s", "t", "u", "v", "w", "x", "y", "z">>
Uppers ==
    <<"A", "B", "C", "D", "E", "F", "G", "H", "I", "J", "K", "L", "M", "N", "O", "P", "Q", "R", "S", "T", "U", "V", "W", "X", "Y", "Z">>
SameLetter(c, d) ==
    c = d \/ \E i \in DOMAIN Lowers : {c, d} = {Lowers[i], Uppers[i]}
SameWord(a, b) ==
    Len(a) = Len(b) /\ \A i \in DOMAIN a : SameLetter(a[i], b[i])

\* C19: the two lookups return data and never raise: a key of the table, in
\* any case, gives status "success" with the table's value; every other
\* string gives status "error" with an error_message and no fee or rate.
C19_LookupErrorsAreData ==
    /\ applied.fn = "fee" =>
         LET r == applied.result
             hits == { k \in DOMAIN fee_database : SameWord(applied.method, k) }
         IN  /\ "status" \in DOMAIN r
             /\ IF hits # {}
                THEN \A k \in hits :
                       r = [status |-> "success", fee_percentage |-> fee_database[k]]
                ELSE /\ r.status = "error"
                     /\ DOMAIN r = {"status", "error_message"}
    /\ applied.fn = "rate" =>
         LET r == applied.result
             hits == { k \in DOMAIN rate_database[<<"u", "s", "d">>] :
                         /\ SameWord(applied.base, <<"u", "s", "d">>)
                         /\ SameWord(applied.target, k) }
         IN  /\ "status" \in DOMAIN r
             /\ IF hits # {}
                THEN \A k \in hits :
                       r = [status |-> "success",
                            rate |-> rate_database[<<"u", "s", "d">>][k]]
                ELSE /\ r.status = "error"
                     /\ DOMAIN r = {"status", "error_message"}

C19_Witness ==
    /\ applied.fn = "fee"
    /\ applied.method = <<"p", "a", "y", "p", "a", "l">>
    /\ applied.result.status = "error"

\* C25: the gated tool calls request_confirmation exactly when count > T and
\* no confirmation is attached: then once, with a payload that carries the
\* count, returning the pending result; on every other path not at all.
C25_RequestExactlyWhenGated ==
    applied.fn = "gated_tool" =>
        LET requests == applied.outcome.confirmation_requests IN
        IF applied.count > Threshold(script) /\ applied.tool_confirmation = << >>
        THEN /\ Len(requests) = 1
             /\ \E key \in DOMAIN requests[1].payload :
                  requests[1].payload[key] = applied.count
             /\ applied.outcome.result.status = PendingStatus(script)
        ELSE requests = << >>

C25_Witness ==
    /\ script = "image_auto"
    /\ applied.fn = "gated_tool"
    /\ applied.count = 2
    /\ applied.tool_confirmation = << >>
    /\ Len(applied.outcome.confirmation_requests) = 1

\* C26: place_shipping_order returns approved, pending or rejected; the
\* result has an order_id exactly when it is approved; the id ends in AUTO
\* exactly when count <= T and in HUMAN exactly when count > T and the
\* confirmation is granted.
C26_OrderIdShape ==
    (applied.fn = "gated_tool" /\ script = "shipping") =>
        LET result == applied.outcome.result
            granted == applied.tool_confirmation = << [confirmed |-> TRUE] >>
            suffix == IF "order_id" \in DOMAIN result
                      THEN result.order_id[3] ELSE "none"
        IN  /\ result.status \in {"approved", "pending", "rejected"}
            /\ ("order_id" \in DOMAIN result) <=> (result.status = "approved")
            /\ (suffix = "AUTO") <=> (applied.count <= LARGE_ORDER_THRESHOLD)
            /\ (suffix = "HUMAN") <=> (applied.count > LARGE_ORDER_THRESHOLD /\ granted)
            /\ suffix \in {"AUTO", "HUMAN", "none"}
            /\ suffix # "none" => result.order_id = <<"ORD", applied.count, suffix>>

C26_Witness ==
    /\ script = "shipping"
    /\ applied.fn = "gated_tool"
    /\ applied.count = 6
    /\ applied.tool_confirmation = << [confirmed |-> TRUE] >>
    /\ "order_id" \in DOMAIN applied.outcome.result
    /\ applied.outcome.result.order_id = <<"ORD", 6, "HUMAN">>

\* The collaborator calls run_agent_workflow makes for a session id, a query,
\* the events of the initial run and a decision.
AutomatedCalls(sid, q, evs, decision) ==
    LET pause_info == check_for_pause(evs) IN
    << CreateSessionCall("image_auto", sid),
       RunAsyncCall("image_auto", sid, QueryContent(q), << >>) >>
    \o (IF pause_info # << >>
        THEN << RunAsyncCall("image_auto", sid,
                             create_human_decision(pause_info[1], decision[1]),
                             << pause_info[1].invocation_id >>) >>
        ELSE << >>)

\* C28: at its end a run of the interactive workflow has made the calls the
\* automated workflow makes for the same events with auto_approve set to the
\* decision of the answer: create_session, the initial run and, if paused,
\* the resume with the same decision message and invocation id.
C28_InteractiveMatchesAutomated ==
    (script = "image_human" /\ pc = "done")
    => calls = AutomatedCalls(session_id, query, events, is_approved)

C28_Witness ==
    /\ script = "image_human"
    /\ pc = "done"
    /\ Len(calls) = 3
    /\ is_approved = << TRUE >>

\* C23: create_mcp_toolset never raises; when the toolset could not be created
\* it reports and gives None, and its caller returns with no agent built and
\* no query run: run_mcp_demo is back at the menu, main_logic of the exercise
\* scripts has exited before its menu, with no workflow run started.
C23_NoToolsetNoAgent ==
    /\ mcp_tool # Raised
    /\ mcp_tool = Returned(None) =>
         /\ printed \in {<< "MCP Connection Failed" >>, << "MCP Error" >>}
         /\ agents \cap {"image_agent", "creative_agent"} = {}
         /\ ran = << >>
         /\ IF script = "shipping"
            THEN pc = "menu"
            ELSE pc = "exit" /\ runs = 0 /\ calls = << >> /\ sessions = {}
    /\ mcp_tool = Returned(Some("McpToolset"))
         => printed \notin {<< "MCP Connection Failed" >>, << "MCP Error" >>}

\* run_mcp_demo has returned to the menu after a failed connection that
\* followed a completed workflow run.
C23_Witness ==
    /\ script = "shipping"
    /\ mcp_tool = Returned(None)
    /\ pc = "menu"
    /\ runs = 1
    /\ "shipping_agent" \in agents

\* C27: a workflow run whose controller has detected a pause goes on to take
\* one decision, make one resume call and return: from pc = "paused" the run
\* reaches pc = "done" with the decision taken and exactly create_session,
\* the initial run and the resume call made.
C27_PausedRunCompletes ==
    (pc = "paused") ~> (/\ pc = "done"
                        /\ Truthy(is_approved)
                        /\ Len(calls) = 3
                        /\ calls[3] = ResumeCall)

C27_Witness ==
    /\ script = "shipping"
    /\ pc = "done"
    /\ Truthy(approval_info)
    /\ is_approved = Some(FALSE)
    /\ Len(calls) = 3
    /\ calls[3] = ResumeCall

\* ------------------------------------------ multi-agent workflow properties
\* Positions of the trace at which agent n starts, and at which it ends.
Starts(n) == { i \in DOMAIN trace : trace[i] = << "start", n >> }
Ends(n) == { i \in DOMAIN trace : trace[i] = << "end", n >> }
ExitLoopCalls == { i \in DOMAIN trace : trace[i][1] = "tool" /\ trace[i][3] = "exit_loop" }
LoopStarts == Starts("CriticAgent") \cup Starts("RefinerAgent")

\* C21: in the story workflow the initial writer runs once, before the loop;
\* the loop runs critic then refiner; once the refiner has called exit_loop
\* no sub-agent of the loop starts again; and the critic starts at most
\* max_iterations = 2 times.
C21_ExitLoopStopsLoop ==
    workflow = "story" =>
        /\ Cardinality(Starts("InitialWriterAgent")) <= 1
        /\ \A i \in LoopStarts : \E j \in Ends("InitialWriterAgent") : j < i
        /\ \A i \in Starts("RefinerAgent") :
               \E j \in Ends("CriticAgent") : j < i
        /\ Cardinality(Starts("RefinerAgent"))
               <= Cardinality(Starts("CriticAgent"))
        /\ Cardinality(Starts("CriticAgent")) <= 2
        /\ \A i \in ExitLoopCalls : \A j \in LoopStarts : j < i

\* C22: the aggregator starts only after the three researchers have ended
\* and tech_research, health_research and finance_research are written, and
\* each of these keys is written by its own researcher only.
C22_AggregatorAfterResearchers ==
    workflow = "research" =>
        /\ \A i \in Starts("AggregatorAgent") :
             \A r \in {"TechResearcher", "HealthResearcher", "FinanceResearcher"} :
               \E j \in Ends(r) : j < i
        /\ status["AggregatorAgent"] # "idle" =>
             /\ session_state["tech_research"] = "TechResearcher"
             /\ session_state["health_research"] = "HealthResearcher"
             /\ session_state["finance_research"] = "FinanceResearcher"
        /\ session_state["tech_research"] \in {Unwritten, "TechResearcher"}
        /\ session_state["health_research"] \in {Unwritten, "HealthResearcher"}
        /\ session_state["finance_research"] \in {Unwritten, "FinanceResearcher"}
        /\ \A k \in StateKeys :
             session_state[k] \in {"TechResearcher", "HealthResearcher", "FinanceResearcher"}
               => k = Def(session_state[k]).output_key
        /\ status["AggregatorAgent"] # "failed"

\* The aggregator is running on the reports of researchers that ended in an
\* order other than the order of the list.
C22_Witness ==
    /\ workflow = "research"
    /\ status["AggregatorAgent"] = "running"
    /\ \E i \in Ends("FinanceResearcher") : \E j \in Ends("TechResearcher") : i < j
    /\ \E i \in Starts("HealthResearcher") : \E j \in Ends("FinanceResearcher") : i < j

\* C24: in the blog, research and story workflows an agent that has started
\* finds every placeholder key of its instruction in the session state,
\* written by an agent that has ended; no start fails on a missing key.
C24_PlaceholdersWritten ==
    workflow # "none" =>
        \A n \in Members :
            /\ status[n] # "failed"
            /\ (Def(n).kind = "llm" /\ status[n] \in {"running", "done"}) =>
                 \A k \in Def(n).placeholders :
                    /\ session_state[k] # Unwritten
                    /\ Ends(session_state[k]) # {}
                    /\ Def(session_state[k]).output_key = k

\* The refiner runs in the second pass of the loop on the story its own
\* first pass wrote and the critique of the second pass.
C24_Witness ==
    /\ workflow = "story"
    /\ status["RefinerAgent"] = "running"
    /\ times_looped["StoryRefinementLoop"] = 1
    /\ session_state["current_story"] = "RefinerAgent"
    /\ session_state["critique"] = "CriticAgent"

\* -------------------------------------------------- interactive_mode properties
\* word is exit, quit, q or the empty string, in any case.
SpellsExitWord(word) ==
    \E e \in {<<"e", "x", "i", "t">>, <<"q", "u", "i", "t">>, <<"q">>, << >>} :
        SameWord(word, e)

LastPrinted == IF printed = << >> THEN "" ELSE printed[Len(printed)]

\* C29: an exception while a query runs (or at the prompt) is reported and
\* the loop prompts again; the loop has ended only after an exit word (exit,
\* quit, q or the empty line, trimmed and in any case) or a keyboard
\* interrupt; and no exit word was ever run as a query.
C29_LoopEndsOnlyOnExit ==
    /\ [][(repl \in {"prompt", "running"} /\ LastPrinted' = "Error"
             /\ printed' # printed)
          => (repl' = "prompt")]_vars
    /\ [][(repl # "ended" /\ repl' = "ended")
          => \/ /\ LastPrinted' = "Goodbye!"
                /\ repl = "prompt"
                /\ ran' = ran
                /\ SpellsExitWord(strip(user_input'))
             \/ LastPrinted' = "Interrupted. Goodbye!" /\ ran' = ran]_vars
    /\ [][\A i \in DOMAIN ran' :
             /\ ~SpellsExitWord(ran'[i])
             /\ ran'[i] = strip(ran'[i])]_vars
    /\ [][(repl = "prompt" /\ repl' = "running")
          => (/\ ~SpellsExitWord(strip(user_input'))
              /\ ran' = Append(ran, strip(user_input')))]_vars

\* The loop is back at the prompt after a query that raised, with a second
\* question already run before.
C29_Witness ==
    /\ repl = "prompt"
    /\ Len(ran) = 2
    /\ printed = << "Error" >>

====
